---- MODULE Spec2Model ----
(***************************************************************************)
(* The analyze route of the CRO/UX audit tool (src/src/app/api/analyze/    *)
(* route.ts): the Question Bank, the per-question evaluator (model call    *)
(* with placeholder recovery, heuristic evaluation without a key), the     *)
(* scorer, the grader, the recommendation ranker and the POST handler.     *)
(***************************************************************************)
EXTENDS Integers, Sequences, FiniteSets, TLC

(***************************************************************************)
(* State.  One analyze request (POST, route.ts:534-707):                   *)
(*   openaiKey   process.env.OPENAI_API_KEY is set                         *)
(*   posthogKey  POSTHOG_API_KEY is set                                    *)
(*   backend     how the model backend answers a call as a rule            *)
(*   deviations  the calls it answered otherwise so far                    *)
(*   pc          where the handler stands (which await it is suspended at) *)
(*   url         the url member of the request body                        *)
(*   summary     the ContentSummary fetchWebsiteContent returned           *)
(*   croResults, uxResults  the CategoryResults pushed so far              *)
(*   response    the NextResponse returned                                 *)
(*   fetches, modelCalls    the axios.get and chat-completion calls issued *)
(*   events      the telemetry events posted, in order                     *)
(*   caught      the message of the error the handler's catch block got    *)
(*   trackingError  a telemetry post of the request failed (its catch      *)
(*               logged 'PostHog tracking error')                          *)
(*   parked      the same request state of a second invocation of POST     *)
(*               while it is suspended at an await or not running          *)
(* and one call of a pure function (evaluator, grader, ranker):            *)
(*   evalCall, gradeCall, recCall  its arguments and, once made, its value *)
(***************************************************************************)
VARIABLES openaiKey, posthogKey, backend, deviations, pc, url, summary,
          croResults, uxResults, response, fetches, modelCalls, events, caught,
          trackingError, parked, evalCall, gradeCall, recCall

vars == <<openaiKey, posthogKey, backend, deviations, pc, url, summary,
          croResults, uxResults, response, fetches, modelCalls, events, caught,
          trackingError, parked, evalCall, gradeCall, recCall>>

handlerVars == <<openaiKey, posthogKey, backend, deviations, pc, url, summary,
                 croResults, uxResults, response, fetches, modelCalls, events, caught,
                 trackingError, parked>>

(***************************************************************************)
(* Question Bank (route.ts:15-128).                                        *)
(***************************************************************************)
CroQuestionsOneDropped == <<
  [category |-> "Offers & Messaging",
   questions |-> <<
      "Is there a clear, compelling value proposition above the fold?",
      "Are there multiple clear calls-to-action (CTAs) on the page?",
      "Is there social proof (testimonials, reviews, case studies) visible?" >>],
  [category |-> "Social Proof & Trust",
   questions |-> <<
      "Are there customer testimonials or reviews prominently displayed?",
      "Are there trust signals (security badges, certifications, guarantees)?" >>],
  [category |-> "Analytics & Tracking",
   questions |-> <<
      "Is there proper conversion tracking set up?",
      "Are there A/B testing tools or experiments running?" >>],
  [category |-> "Lead Capture & Forms",
   questions |-> <<
      "Are forms optimized for conversion (minimal fields, clear labels)?",
      "Is there a lead magnet or free offer to capture emails?" >>],
  [category |-> "Urgency & Scarcity",
   questions |-> <<
      "Are there time-sensitive offers or limited availability indicators?" >>],
  [category |-> "Pricing & Friction",
   questions |-> <<
      "Is pricing transparent and easy to understand?",
      "Are there multiple pricing tiers or options available?" >>],
  [category |-> "Speed & Experimentation",
   questions |-> <<
      "Does the page load quickly (under 3 seconds)?",
      "Are there ongoing optimization efforts or experiments?" >>] >>

CRO_QUESTIONS == <<
  [category |-> "Offers & Messaging",
   questions |-> <<
      "Is there a clear, compelling value proposition above the fold?",
      "Are there multiple clear calls-to-action (CTAs) on the page?",
      "Is there social proof (testimonials, reviews, case studies) visible?",
      "Are there urgency or scarcity elements (limited time, limited quantity)?" >>],
  [category |-> "Social Proof & Trust",
   questions |-> <<
      "Are there customer testimonials or reviews prominently displayed?",
      "Are there trust signals (security badges, certifications, guarantees)?" >>],
  [category |-> "Analytics & Tracking",
   questions |-> <<
      "Is there proper conversion tracking set up?",
      "Are there A/B testing tools or experiments running?" >>],
  [category |-> "Lead Capture & Forms",
   questions |-> <<
      "Are forms optimized for conversion (minimal fields, clear labels)?",
      "Is there a lead magnet or free offer to capture emails?" >>],
  [category |-> "Urgency & Scarcity",
   questions |-> <<
      "Are there time-sensitive offers or limited availability indicators?" >>],
  [category |-> "Pricing & Friction",
   questions |-> <<
      "Is pricing transparent and easy to understand?",
      "Are there multiple pricing tiers or options available?" >>],
  [category |-> "Speed & Experimentation",
   questions |-> <<
      "Does the page load quickly (under 3 seconds)?",
      "Are there ongoing optimization efforts or experiments?" >>] >>

UX_QUESTIONS == <<
  [category |-> "Performance & Stability",
   questions |-> <<
      "Does the page load quickly and reliably?",
      "Are there any broken links or 404 errors?" >>],
  [category |-> "Mobile-First Usability",
   questions |-> <<
      "Is the site fully responsive and mobile-friendly?",
      "Are touch targets appropriately sized for mobile?",
      "Is the navigation intuitive on mobile devices?" >>],
  [category |-> "Navigation & Information Architecture",
   questions |-> <<
      "Is the navigation clear and easy to understand?",
      "Is there a logical information hierarchy?" >>],
  [category |-> "Accessibility (WCAG 2.1 AA)",
   questions |-> <<
      "Are there proper alt texts for images?",
      "Is there sufficient color contrast?",
      "Is the site keyboard navigable?" >>],
  [category |-> "Content & Microcopy",
   questions |-> <<
      "Is the content clear, concise, and scannable?",
      "Are error messages helpful and actionable?" >>],
  [category |-> "Error States & Feedback",
   questions |-> <<
      "Are form validation errors clear and helpful?",
      "Is there appropriate feedback for user actions?" >>],
  [category |-> "Visual Design & Consistency",
   questions |-> <<
      "Is the design consistent throughout the site?",
      "Are visual elements properly aligned and spaced?" >>],
  [category |-> "Delight & Engagement",
   questions |-> <<
      "Are there interactive elements that engage users?",
      "Is the overall experience enjoyable and memorable?" >>] >>


(***************************************************************************)
(* Strings.  A text is a TLA+ string; toLowerCase and includes are         *)
(* computed character by character, as String.prototype.toLowerCase and    *)
(* String.prototype.includes do (includes is case-sensitive).              *)
(***************************************************************************)
LowerChar(c) ==
  CASE c = "A" -> "a" [] c = "B" -> "b" [] c = "C" -> "c" [] c = "D" -> "d"
    [] c = "E" -> "e" [] c = "F" -> "f" [] c = "G" -> "g" [] c = "H" -> "h"
    [] c = "I" -> "i" [] c = "J" -> "j" [] c = "K" -> "k" [] c = "L" -> "l"
    [] c = "M" -> "m" [] c = "N" -> "n" [] c = "O" -> "o" [] c = "P" -> "p"
    [] c = "Q" -> "q" [] c = "R" -> "r" [] c = "S" -> "s" [] c = "T" -> "t"
    [] c = "U" -> "u" [] c = "V" -> "v" [] c = "W" -> "w" [] c = "X" -> "x"
    [] c = "Y" -> "y" [] c = "Z" -> "z" [] OTHER -> c

RECURSIVE toLowerCase(_)
toLowerCase(s) ==
  IF Len(s) = 0 THEN ""
  ELSE IF Len(s) = 1 THEN LowerChar(s)
  ELSE LET h == Len(s) \div 2
       IN  toLowerCase(SubSeq(s, 1, h)) \o toLowerCase(SubSeq(s, h + 1, Len(s)))

includes(s, k) ==
  \E i \in 1..(Len(s) - Len(k) + 1) : SubSeq(s, i, i + Len(k) - 1) = k

(***************************************************************************)
(* Heuristic evaluator (route.ts:328-471).  A ContentSummary is a record   *)
(* [title, description, headings, images, forms, buttons, status]; an      *)
(* answered question is a record [question, answer, evidence,              *)
(* recommendation, priority].                                              *)
(***************************************************************************)
AnsweredTypo(q, a, e, r, p) ==
  [question |-> q, answer |-> IF a = "needs_work" THEN "needs work" ELSE a,
   evidence |-> e, recommendation |-> r, priority |-> p]

Answered(q, a, e, r, p) ==
  [question |-> q, answer |-> a, evidence |-> e, recommendation |-> r, priority |-> p]

DefaultEvidence == "Basic analysis based on available content"
DefaultRecommendation == "Review this aspect manually for detailed insights"

FallbackQuestionCtaFirst(content, question) ==
  LET lowerQuestion == toLowerCase(question)
      headings      == [i \in 1..Len(content.headings) |-> toLowerCase(content.headings[i])]
      hasForms      == content.forms > 0
      hasButtons    == content.buttons > 0
      Default       == Answered(question, "needs_work", DefaultEvidence,
                                DefaultRecommendation, "medium")
      HasSocial(h)  == includes(h, "testimonial") \/ includes(h, "review")
                         \/ includes(h, "customer")
      HasUrgency(h) == includes(h, "limited") \/ includes(h, "offer")
                         \/ includes(h, "sale") \/ includes(h, "time")
      HasPricing(h) == includes(h, "price") \/ includes(h, "cost")
                         \/ includes(h, "fee") \/ includes(h, "$")
      NonEmpty(img) == img # ""
      imagesWithAlt == Len(SelectSeq(content.images, NonEmpty))
      totalImages   == Len(content.images)
  IN
  IF includes(lowerQuestion, "call-to-action") \/ includes(lowerQuestion, "cta") THEN
    IF hasButtons
    THEN Answered(question, "yes",
           "Found " \o ToString(content.buttons) \o " buttons/CTAs on the page",
           "Ensure CTAs are clear, prominent, and action-oriented", "medium")
    ELSE Answered(question, "no", "No buttons or CTAs detected",
           "Add clear call-to-action buttons to guide user behavior", "high")
  ELSE IF includes(lowerQuestion, "value proposition") \/ includes(lowerQuestion, "clear") THEN
    IF content.title # "" /\ content.description # ""
    THEN Answered(question, "yes", "Website has a title and description",
           "Ensure your value proposition is prominently displayed above the fold", "medium")
    ELSE Default
  ELSE IF includes(lowerQuestion, "testimonial") \/ includes(lowerQuestion, "review") THEN
    IF \E i \in 1..Len(headings) : HasSocial(headings[i])
    THEN Answered(question, "yes", "Found potential social proof content in headings",
           "Ensure testimonials are prominently displayed and credible", "medium")
    ELSE Answered(question, "no", "No testimonials or reviews detected",
           "Add customer testimonials and reviews to build trust", "medium")
  ELSE IF includes(lowerQuestion, "form") \/ includes(lowerQuestion, "lead capture") THEN
    IF hasForms
    THEN Answered(question, "yes",
           "Found " \o ToString(content.forms) \o " forms on the page",
           "Optimize forms for conversion with minimal fields and clear labels", "medium")
    ELSE Answered(question, "no", "No forms detected",
           "Add lead capture forms to collect visitor information", "high")
  ELSE IF includes(lowerQuestion, "mobile") \/ includes(lowerQuestion, "responsive") THEN
    Answered(question, "needs_work", "Mobile responsiveness requires manual testing",
      "Test website on various mobile devices and screen sizes", "medium")
  ELSE IF includes(lowerQuestion, "speed") \/ includes(lowerQuestion, "load") THEN
    Answered(question, "needs_work", "Page speed requires performance testing tools",
      "Use tools like Google PageSpeed Insights to measure and optimize loading speed",
      "medium")
  ELSE IF includes(lowerQuestion, "accessibility") \/ includes(lowerQuestion, "alt text") THEN
    IF totalImages > 0 THEN
      IF imagesWithAlt = totalImages
      THEN Answered(question, "yes",
             "All " \o ToString(totalImages) \o " images have alt text",
             "Maintain accessibility standards for all new images", "medium")
      ELSE Answered(question, "needs_work",
             ToString(imagesWithAlt) \o "/" \o ToString(totalImages) \o " images have alt text",
             "Add alt text to all images for better accessibility", "medium")
    ELSE Answered(question, "needs_work", "No images detected to analyze",
           "Ensure all images have descriptive alt text when added", "medium")
  ELSE IF includes(lowerQuestion, "navigation") \/ includes(lowerQuestion, "hierarchy") THEN
    IF Len(headings) > 0
    THEN Answered(question, "yes",
           "Found " \o ToString(Len(headings)) \o " headings indicating content structure",
           "Ensure navigation follows logical information hierarchy", "medium")
    ELSE Answered(question, "needs_work", "Limited heading structure detected",
           "Improve content structure with proper heading hierarchy", "medium")
  ELSE IF includes(lowerQuestion, "tracking") \/ includes(lowerQuestion, "analytics") THEN
    Answered(question, "needs_work", "Analytics setup requires manual verification",
      "Verify Google Analytics or other tracking tools are properly configured", "medium")
  ELSE IF includes(lowerQuestion, "a/b testing") \/ includes(lowerQuestion, "experiment") THEN
    Answered(question, "needs_work", "A/B testing setup requires manual verification",
      "Consider implementing A/B testing tools like Optimizely or Google Optimize", "medium")
  ELSE IF includes(lowerQuestion, "urgency") \/ includes(lowerQuestion, "scarcity") THEN
    IF \E i \in 1..Len(headings) : HasUrgency(headings[i])
    THEN Answered(question, "yes", "Found potential urgency/scarcity elements in content",
           "Ensure urgency elements are genuine and not misleading", "medium")
    ELSE Answered(question, "no", "No urgency or scarcity elements detected",
           "Consider adding limited-time offers or scarcity indicators", "medium")
  ELSE IF includes(lowerQuestion, "pricing") \/ includes(lowerQuestion, "cost") THEN
    IF \E i \in 1..Len(headings) : HasPricing(headings[i])
    THEN Answered(question, "yes", "Found potential pricing information in content",
           "Ensure pricing is clear, transparent, and easy to understand", "medium")
    ELSE Answered(question, "needs_work", "Pricing information not clearly detected",
           "Make pricing information clear and accessible to visitors", "medium")
  ELSE Default

\* The body of the questions.map callback: one question of one category.
FallbackQuestion(content, question) ==
  LET lowerQuestion == toLowerCase(question)
      headings      == [i \in 1..Len(content.headings) |-> toLowerCase(content.headings[i])]
      hasForms      == content.forms > 0
      hasButtons    == content.buttons > 0
      Default       == Answered(question, "needs_work", DefaultEvidence,
                                DefaultRecommendation, "medium")
      HasSocial(h)  == includes(h, "testimonial") \/ includes(h, "review")
                         \/ includes(h, "customer")
      HasUrgency(h) == includes(h, "limited") \/ includes(h, "offer")
                         \/ includes(h, "sale") \/ includes(h, "time")
      HasPricing(h) == includes(h, "price") \/ includes(h, "cost")
                         \/ includes(h, "fee") \/ includes(h, "$")
      NonEmpty(img) == img # ""
      imagesWithAlt == Len(SelectSeq(content.images, NonEmpty))
      totalImages   == Len(content.images)
  IN
  IF includes(lowerQuestion, "value proposition") \/ includes(lowerQuestion, "clear") THEN
    IF content.title # "" /\ content.description # ""
    THEN Answered(question, "yes", "Website has a title and description",
           "Ensure your value proposition is prominently displayed above the fold", "medium")
    ELSE Default
  ELSE IF includes(lowerQuestion, "call-to-action") \/ includes(lowerQuestion, "cta") THEN
    IF hasButtons
    THEN Answered(question, "yes",
           "Found " \o ToString(content.buttons) \o " buttons/CTAs on the page",
           "Ensure CTAs are clear, prominent, and action-oriented", "medium")
    ELSE Answered(question, "no", "No buttons or CTAs detected",
           "Add clear call-to-action buttons to guide user behavior", "high")
  ELSE IF includes(lowerQuestion, "testimonial") \/ includes(lowerQuestion, "review") THEN
    IF \E i \in 1..Len(headings) : HasSocial(headings[i])
    THEN Answered(question, "yes", "Found potential social proof content in headings",
           "Ensure testimonials are prominently displayed and credible", "medium")
    ELSE Answered(question, "no", "No testimonials or reviews detected",
           "Add customer testimonials and reviews to build trust", "medium")
  ELSE IF includes(lowerQuestion, "form") \/ includes(lowerQuestion, "lead capture") THEN
    IF hasForms
    THEN Answered(question, "yes",
           "Found " \o ToString(content.forms) \o " forms on the page",
           "Optimize forms for conversion with minimal fields and clear labels", "medium")
    ELSE Answered(question, "no", "No forms detected",
           "Add lead capture forms to collect visitor information", "high")
  ELSE IF includes(lowerQuestion, "mobile") \/ includes(lowerQuestion, "responsive") THEN
    Answered(question, "needs_work", "Mobile responsiveness requires manual testing",
      "Test website on various mobile devices and screen sizes", "medium")
  ELSE IF includes(lowerQuestion, "speed") \/ includes(lowerQuestion, "load") THEN
    Answered(question, "needs_work", "Page speed requires performance testing tools",
      "Use tools like Google PageSpeed Insights to measure and optimize loading speed",
      "medium")
  ELSE IF includes(lowerQuestion, "accessibility") \/ includes(lowerQuestion, "alt text") THEN
    IF totalImages > 0 THEN
      IF imagesWithAlt = totalImages
      THEN Answered(question, "yes",
             "All " \o ToString(totalImages) \o " images have alt text",
             "Maintain accessibility standards for all new images", "medium")
      ELSE Answered(question, "needs_work",
             ToString(imagesWithAlt) \o "/" \o ToString(totalImages) \o " images have alt text",
             "Add alt text to all images for better accessibility", "medium")
    ELSE Answered(question, "needs_work", "No images detected to analyze",
           "Ensure all images have descriptive alt text when added", "medium")
  ELSE IF includes(lowerQuestion, "navigation") \/ includes(lowerQuestion, "hierarchy") THEN
    IF Len(headings) > 0
    THEN Answered(question, "yes",
           "Found " \o ToString(Len(headings)) \o " headings indicating content structure",
           "Ensure navigation follows logical information hierarchy", "medium")
    ELSE Answered(question, "needs_work", "Limited heading structure detected",
           "Improve content structure with proper heading hierarchy", "medium")
  ELSE IF includes(lowerQuestion, "tracking") \/ includes(lowerQuestion, "analytics") THEN
    Answered(question, "needs_work", "Analytics setup requires manual verification",
      "Verify Google Analytics or other tracking tools are properly configured", "medium")
  ELSE IF includes(lowerQuestion, "a/b testing") \/ includes(lowerQuestion, "experiment") THEN
    Answered(question, "needs_work", "A/B testing setup requires manual verification",
      "Consider implementing A/B testing tools like Optimizely or Google Optimize", "medium")
  ELSE IF includes(lowerQuestion, "urgency") \/ includes(lowerQuestion, "scarcity") THEN
    IF \E i \in 1..Len(headings) : HasUrgency(headings[i])
    THEN Answered(question, "yes", "Found potential urgency/scarcity elements in content",
           "Ensure urgency elements are genuine and not misleading", "medium")
    ELSE Answered(question, "no", "No urgency or scarcity elements detected",
           "Consider adding limited-time offers or scarcity indicators", "medium")
  ELSE IF includes(lowerQuestion, "pricing") \/ includes(lowerQuestion, "cost") THEN
    IF \E i \in 1..Len(headings) : HasPricing(headings[i])
    THEN Answered(question, "yes", "Found potential pricing information in content",
           "Ensure pricing is clear, transparent, and easy to understand", "medium")
    ELSE Answered(question, "needs_work", "Pricing information not clearly detected",
           "Make pricing information clear and accessible to visitors", "medium")
  ELSE Default

(***************************************************************************)
(* A value the evaluator hands to the handler is a JSON value, modelled as *)
(* [t, q, items]: t its type ("object", "null", "number"), q the shape of  *)
(* its questions member ("list", "string", "missing"), items the entries   *)
(* of that list.                                                           *)
(***************************************************************************)
QuestionsObject(items) == [t |-> "object", q |-> "list", items |-> items]

performFallbackAnalysis(content, questions) ==
  LET One(question) == FallbackQuestion(content, question)
  IN  QuestionsObject([i \in 1..Len(questions) |-> One(questions[i])])

(***************************************************************************)
(* Model-backed evaluator (route.ts:218-325).                              *)
(*                                                                         *)
(* The outcome of openai.chat.completions.create is a record               *)
(* [kind, message, reply]: kind "throw" rejects with Error(message); kind  *)
(* "reply" resolves, and reply describes choices[0].message.content:       *)
(*   empty      the content is missing or the empty string,                *)
(*   direct     what JSON.parse(response) gives,                           *)
(*   hasObject  whether /\{[\s\S]*\}/ matches the response,                *)
(*   object     what JSON.parse(jsonMatch[0]) gives,                       *)
(*   objectError the message of the SyntaxError of that second parse.      *)
(* A parse result is [ok, value].                                          *)
(***************************************************************************)
NullJson == [t |-> "null", q |-> "missing", items |-> <<>>]
NumberJson == [t |-> "number", q |-> "missing", items |-> <<>>]
EmptyObjectJson == [t |-> "object", q |-> "missing", items |-> <<>>]
StringQuestionsJson == [t |-> "object", q |-> "string", items |-> <<>>]

ParseFail == [ok |-> FALSE, value |-> NullJson]
Parsed(v) == [ok |-> TRUE, value |-> v]

NoReply ==
  [empty |-> TRUE, direct |-> ParseFail, hasObject |-> FALSE, object |-> ParseFail,
   objectError |-> ""]
Throws(msg) == [kind |-> "throw", message |-> msg, reply |-> NoReply]
Replies(r) == [kind |-> "reply", message |-> "", reply |-> r]

ErrorPlaceholdersRethrown(message, questions) == NullJson

\* The catch block of analyzeWithAI (route.ts:290-324): the placeholder
\* answers for an error with the given message.
ErrorPlaceholders(message, questions) ==
  LET texts ==
        IF includes(message, "rate limit") THEN
          <<"OpenAI rate limit exceeded. Please try again in a few minutes.",
            "Wait a few minutes and try again, or upgrade your OpenAI plan.">>
        ELSE IF includes(message, "quota") THEN
          <<"OpenAI quota exceeded. Please check your API usage.",
            "Check your OpenAI account usage and billing status.">>
        ELSE IF includes(message, "invalid api key") THEN
          <<"Invalid OpenAI API key. Please check your configuration.",
            "Verify your OpenAI API key in the environment variables.">>
        ELSE IF includes(message, "timeout") THEN
          <<"AI analysis timed out. The request took too long to process.",
            "Try analyzing a smaller website or try again later.">>
        ELSE IF includes(message, "Invalid AI response format") THEN
          <<"AI response format error. The analysis could not be parsed.",
            "Try again, or contact support if the issue persists.">>
        ELSE
          <<"Unable to analyze due to technical issues", "Please review manually">>
      One(q) == Answered(q, "needs_work", texts[1], texts[2], "medium")
  IN  QuestionsObject([i \in 1..Len(questions) |-> One(questions[i])])

\* The try block of analyzeWithAI (route.ts:252-289): [threw, message, value].
TryModel(content, questions, hasKey, outcome) ==
  LET Return(v) == [threw |-> FALSE, message |-> "", value |-> v]
      Throw(m)  == [threw |-> TRUE, message |-> m, value |-> NullJson]
      r == outcome.reply
  IN  IF ~hasKey THEN Return(performFallbackAnalysis(content, questions))
      ELSE IF outcome.kind = "throw" THEN Throw(outcome.message)
      ELSE IF r.empty THEN Throw("No response from AI")
      ELSE IF r.direct.ok THEN Return(r.direct.value)
      ELSE IF r.hasObject THEN
             IF r.object.ok THEN Return(r.object.value) ELSE Throw(r.objectError)
      ELSE Throw("Invalid AI response format")

\* route.ts:218-325: the value the evaluator hands to the handler.
analyzeWithAI(content, questions, hasKey, outcome) ==
  LET t == TryModel(content, questions, hasKey, outcome)
  IN  IF t.threw THEN ErrorPlaceholders(t.message, questions) ELSE t.value

(***************************************************************************)
(* Scorer (route.ts:473-483).  Point values are multiples of 0.5, which    *)
(* doubles add exactly, so a score is kept in half points: yes = 2,        *)
(* needs_work = 1, no and anything else = 0.                               *)
(***************************************************************************)
HalfPointsFullForNeedsWork(q) ==
  CASE q.answer = "yes" -> 2
    [] q.answer = "needs_work" -> 2
    [] q.answer = "no" -> 0
    [] OTHER -> 0

HalfPoints(q) ==
  CASE q.answer = "yes" -> 2
    [] q.answer = "needs_work" -> 1
    [] q.answer = "no" -> 0
    [] OTHER -> 0

RECURSIVE calculateScore(_)
\* questions.map(points).reduce(sum, 0)
calculateScore(questions) ==
  IF Len(questions) = 0 THEN 0
  ELSE IF Len(questions) = 1 THEN HalfPoints(questions[1])
  ELSE LET h == Len(questions) \div 2
       IN  calculateScore(SubSeq(questions, 1, h))
             + calculateScore(SubSeq(questions, h + 1, Len(questions)))

MathRoundHalvesDown(h) == h \div 2

\* Math.round of h half points: the nearest integer, halves rounded up.
MathRoundHalves(h) == (h + 1) \div 2

CategoryScoreFraction(questions, n) == (calculateScore(questions) + n) \div (2 * n)

\* Math.round((calculateScore(questions) / n) * 100) (route.ts:606, 624).
\* With h half points the value is 50h/n; it is a half-integer only when n
\* divides 100h with an odd quotient, which for n in 1..4 needs n = 4, where
\* h/8 and its product with 100 are exact doubles; everywhere else the value
\* is at least 1/6 away from a half-integer, so the double rounds as the
\* rational does.
CategoryScore(questions, n) == (100 * calculateScore(questions) + n) \div (2 * n)

(***************************************************************************)
(* Grader (route.ts:485-492).  calculateOverallGrade works on IEEE-754     *)
(* doubles; a positive double is [z |-> FALSE, e, m]: the value            *)
(* 1.m2...m53 x 2^e with m the 53 significand bits (m[1] = 1); zero is     *)
(* [z |-> TRUE].  Every operation rounds to nearest, ties to even.         *)
(***************************************************************************)
SigBits == 53

DZero == [z |-> TRUE, e |-> 0, m |-> <<>>]

Zeros(n) == [i \in 1..n |-> 0]

MinOf(S) == CHOOSE k \in S : \A j \in S : k <= j

\* The carry into bit i of a + b (bit sequences of equal length, most
\* significant bit first; i = 0 is the carry out): the nearest lower position
\* where the two bits agree generates it (1, 1) or absorbs it (0, 0).
CarryInto(a, b, i) ==
  LET E == {k \in (i + 1)..Len(a) : a[k] = b[k]}
  IN  IF E = {} THEN 0 ELSE a[MinOf(E)]

\* a + b: [s, c] with c the carry out.
AddBits(a, b) ==
  [s |-> [i \in 1..Len(a) |-> (a[i] + b[i] + CarryInto(a, b, i)) % 2],
   c |-> CarryInto(a, b, 0)]

\* Round the exact value 1.b2b3... x 2^e (bits, leading 1, at least 53 of
\* them), followed by a nonzero tail iff sticky, to a double.
RoundBits(bits, e, sticky) ==
  LET keep == SubSeq(bits, 1, SigBits)
      rest == SubSeq(bits, SigBits + 1, Len(bits))
      rb   == IF Len(rest) > 0 THEN rest[1] ELSE 0
      tail == sticky \/ \E i \in 2..Len(rest) : rest[i] = 1
      up   == rb = 1 /\ (tail \/ keep[SigBits] = 1)
      inc  == AddBits(keep, Zeros(SigBits - 1) \o <<1>>)
  IN  IF ~up THEN [z |-> FALSE, e |-> e, m |-> keep]
      ELSE IF inc.c = 1 THEN [z |-> FALSE, e |-> e + 1, m |-> <<1>> \o Zeros(SigBits - 1)]
      ELSE [z |-> FALSE, e |-> e, m |-> inc.s]

RECURSIVE Pow2Mod(_, _)
\* 2^i mod d, by repeated squaring.
Pow2Mod(i, d) ==
  IF i = 0 THEN 1 % d
  ELSE LET h == Pow2Mod(i \div 2, d)
       IN  (h * h * (IF i % 2 = 1 THEN 2 ELSE 1)) % d

\* The first k bits after the binary point of r/d (0 <= r < d), and the
\* remainder left after them: [bits, r].
QuotientBits(r, d, k) ==
  [bits |-> [i \in 1..k |-> IF 2 * ((r * Pow2Mod(i - 1, d)) % d) >= d THEN 1 ELSE 0],
   r    |-> (r * Pow2Mod(k, d)) % d]

RECURSIVE DDivNorm(_, _, _)
\* n/d for integers n, d > 0, scaled so that d <= n < 2d, at exponent e.
DDivNorm(n, d, e) ==
  IF n >= 2 * d THEN DDivNorm(n, 2 * d, e + 1)
  ELSE IF n < d THEN DDivNorm(2 * n, d, e - 1)
  ELSE LET q == QuotientBits(n - d, d, SigBits)
       IN  RoundBits(<<1>> \o q.bits, e, q.r # 0)

\* The double n / d of two small non-negative integers (d > 0), which are
\* exact doubles themselves; also the double that a decimal literal equal to
\* n/d denotes.
DDiv(n, d) == IF n = 0 THEN DZero ELSE DDivNorm(n, d, 0)

\* v * 0.5: exact.
DHalf(v) == IF v.z THEN v ELSE [v EXCEPT !.e = @ - 1]

\* v + w for non-negative doubles.
DAdd(v, w) ==
  IF v.z THEN w
  ELSE IF w.z THEN v
  ELSE LET hi    == IF v.e >= w.e THEN v ELSE w
           lo    == IF v.e >= w.e THEN w ELSE v
           shift == hi.e - lo.e
           sum   == AddBits(hi.m \o Zeros(shift), Zeros(shift) \o lo.m)
       IN  IF sum.c = 1 THEN RoundBits(<<1>> \o sum.s, hi.e + 1, FALSE)
           ELSE RoundBits(sum.s, hi.e, FALSE)

BitsGT(a, b) ==
  LET D == {i \in 1..Len(a) : a[i] # b[i]}
  IN  D # {} /\ a[MinOf(D)] > b[MinOf(D)]

\* a >= b for bit sequences of equal length, most significant bit first.
BitsGE(a, b) ==
  LET D == {i \in 1..Len(a) : a[i] # b[i]}
  IN  D = {} \/ a[MinOf(D)] > b[MinOf(D)]

\* v >= w for non-negative doubles.
DGE(v, w) ==
  IF w.z THEN TRUE
  ELSE IF v.z THEN FALSE
  ELSE IF v.e # w.e THEN v.e > w.e
  ELSE BitsGE(v.m, w.m)

GradeA == DDiv(9, 10)
GradeB == DDiv(8, 10)
GradeC == DDiv(7, 10)
GradeD == DDiv(6, 10)

calculateOverallGrade(croScore, uxScore) ==
  LET totalScore == DAdd(DHalf(DDiv(croScore, 15)), DHalf(DDiv(uxScore, 18)))
  IN  IF DGE(totalScore, GradeA) THEN "A"
      ELSE IF DGE(totalScore, GradeB) THEN "B"
      ELSE IF DGE(totalScore, GradeC) THEN "C"
      ELSE IF DGE(totalScore, GradeD) THEN "D"
      ELSE "F"

(***************************************************************************)
(* Recommendation ranker (route.ts:494-532).  flatMap keeps, with every    *)
(* answered question, the list it came from: the code finds a              *)
(* recommendation's category by looking the question object up in          *)
(* croAnalysis (Array.prototype.includes compares object identity, and     *)
(* every answered question is an object of its own).                       *)
(***************************************************************************)
RECURSIVE flatMapQuestions(_)
\* cats.flatMap(cat => cat.questions)
flatMapQuestions(cats) ==
  IF Len(cats) = 0 THEN <<>>
  ELSE IF Len(cats) = 1 THEN cats[1].questions
  ELSE LET h == Len(cats) \div 2
       IN  flatMapQuestions(SubSeq(cats, 1, h)) \o flatMapQuestions(SubSeq(cats, h + 1, Len(cats)))

FromList(entries, list) == [i \in 1..Len(entries) |-> [q |-> entries[i], list |-> list]]

sliceFromSecond(seq, n) == SubSeq(seq, 2, IF Len(seq) < n THEN Len(seq) ELSE n)

sliceOneMore(seq, n) == SubSeq(seq, 1, IF Len(seq) < n + 1 THEN Len(seq) ELSE n + 1)

\* Array.prototype.slice(0, n)
slice(seq, n) == SubSeq(seq, 1, IF Len(seq) < n THEN Len(seq) ELSE n)

HighLimit == 5
MediumLimit == 3

generateRecommendationsAnyAnswer(croAnalysis, uxAnalysis) ==
  LET all == FromList(flatMapQuestions(croAnalysis), "cro")
               \o FromList(flatMapQuestions(uxAnalysis), "ux")
      IsHigh(f)   == f.q.priority = "high"
      IsMedium(f) == f.q.priority = "medium"
      highPriority   == slice(SelectSeq(all, IsHigh), HighLimit)
      mediumPriority == slice(SelectSeq(all, IsMedium), MediumLimit)
      Fix(f) == [title |-> "Fix: " \o f.q.question, description |-> f.q.recommendation,
                 priority |-> "high", impact |-> "High", effort |-> "Medium",
                 category |-> f.list]
      Improve(f) == [title |-> "Improve: " \o f.q.question,
                     description |-> f.q.recommendation,
                     priority |-> "medium", impact |-> "Medium", effort |-> "Low",
                     category |-> f.list]
  IN  [i \in 1..Len(highPriority) |-> Fix(highPriority[i])]
        \o [i \in 1..Len(mediumPriority) |-> Improve(mediumPriority[i])]

generateRecommendationsByValue(croAnalysis, uxAnalysis) ==
  LET croQuestions == flatMapQuestions(croAnalysis)
      all == croQuestions \o flatMapQuestions(uxAnalysis)
      IsHigh(q)   == q.priority = "high" /\ q.answer # "yes"
      IsMedium(q) == q.priority = "medium" /\ q.answer # "yes"
      highPriority   == slice(SelectSeq(all, IsHigh), HighLimit)
      mediumPriority == slice(SelectSeq(all, IsMedium), MediumLimit)
      Origin(q) == IF \E i \in 1..Len(croQuestions) : croQuestions[i] = q
                   THEN "cro" ELSE "ux"
      Fix(q) == [title |-> "Fix: " \o q.question, description |-> q.recommendation,
                 priority |-> "high", impact |-> "High", effort |-> "Medium",
                 category |-> Origin(q)]
      Improve(q) == [title |-> "Improve: " \o q.question,
                     description |-> q.recommendation,
                     priority |-> "medium", impact |-> "Medium", effort |-> "Low",
                     category |-> Origin(q)]
  IN  [i \in 1..Len(highPriority) |-> Fix(highPriority[i])]
        \o [i \in 1..Len(mediumPriority) |-> Improve(mediumPriority[i])]

\* route.ts:494-532
generateRecommendations(croAnalysis, uxAnalysis) ==
  LET all == FromList(flatMapQuestions(croAnalysis), "cro")
               \o FromList(flatMapQuestions(uxAnalysis), "ux")
      IsHigh(f)   == f.q.priority = "high" /\ f.q.answer # "yes"
      IsMedium(f) == f.q.priority = "medium" /\ f.q.answer # "yes"
      highPriority   == slice(SelectSeq(all, IsHigh), HighLimit)
      mediumPriority == slice(SelectSeq(all, IsMedium), MediumLimit)
      Fix(f) == [title |-> "Fix: " \o f.q.question, description |-> f.q.recommendation,
                 priority |-> "high", impact |-> "High", effort |-> "Medium",
                 category |-> f.list]
      Improve(f) == [title |-> "Improve: " \o f.q.question,
                     description |-> f.q.recommendation,
                     priority |-> "medium", impact |-> "Medium", effort |-> "Low",
                     category |-> f.list]
  IN  [i \in 1..Len(highPriority) |-> Fix(highPriority[i])]
        \o [i \in 1..Len(mediumPriority) |-> Improve(mediumPriority[i])]

(***************************************************************************)
(* Inputs of one request.                                                  *)
(***************************************************************************)
\* The request body: json = FALSE when request.json() rejects; otherwise its
\* url member, undefined or a string.
Body(json, defined, text) == [json |-> json, defined |-> defined, text |-> text]

Bodies ==
  { Body(FALSE, FALSE, ""), Body(TRUE, FALSE, ""), Body(TRUE, TRUE, ""),
    Body(TRUE, TRUE, "not a url"), Body(TRUE, TRUE, "example.com"),
    Body(TRUE, TRUE, "http://"), Body(TRUE, TRUE, "https://example.com") }

\* new URL(text) succeeds (route.ts:548): text starts with a scheme (a
\* letter, then letters, digits, +, - or .) and a colon, and for http and
\* https a host follows the slashes.
SchemeChars ==
  { "a", "b", "c", "d", "e", "f", "g", "h", "i", "j", "k", "l", "m", "n", "o", "p", "q",
    "r", "s", "t", "u", "v", "w", "x", "y", "z", "0", "1", "2", "3", "4", "5", "6", "7",
    "8", "9", "+", "-", "." }
Letters == SchemeChars \ { "0", "1", "2", "3", "4", "5", "6", "7", "8", "9", "+", "-", "." }

RECURSIVE StripSlashes(_)
StripSlashes(s) ==
  IF Len(s) > 0 /\ (Head(s) = "/" \/ Head(s) = "\\") THEN StripSlashes(Tail(s)) ELSE s

IsAbsoluteURL(text) ==
  \E i \in 2..Len(text) :
    /\ SubSeq(text, i, i) = ":"
    /\ \A j \in 1..(i - 1) : toLowerCase(SubSeq(text, j, j)) \in SchemeChars
    /\ toLowerCase(SubSeq(text, 1, 1)) \in Letters
    /\ LET scheme == toLowerCase(SubSeq(text, 1, i - 1))
           rest   == SubSeq(text, i + 1, Len(text))
       IN  scheme \in {"http", "https"} => StripSlashes(rest) # ""

\* A ContentSummary also carries the HTTP status of the fetch (route.ts:189-199);
\* before the fetch there is none.
Unfetched ==
  [title |-> "", description |-> "", headings |-> <<>>, images |-> <<>>,
   forms |-> 0, buttons |-> 0, status |-> 0]

BareContent ==
  [title |-> "", description |-> "", headings |-> <<>>, images |-> <<>>,
   forms |-> 0, buttons |-> 0, status |-> 200]

RichContent ==
  [title |-> "Example", description |-> "A test site",
   headings |-> <<"Customer Reviews", "Limited Time Offer", "Pricing">>,
   images |-> <<"logo", "banner">>, forms |-> 2, buttons |-> 5, status |-> 200]

\* The ContentSummaries a fetch may return.
FetchedContents == { BareContent, RichContent }

\* What the catch block of fetchWebsiteContent throws (route.ts:200-215),
\* by the failure of axios.get.
FetchErrorMessage(kind) ==
  CASE kind = "ECONNREFUSED" ->
         "Connection refused. The website may be blocking requests or is not accessible."
    [] kind = "ENOTFOUND" -> "Website not found. Please check the URL and try again."
    [] kind = "403" -> "Access forbidden. The website is blocking automated requests."
    [] kind = "404" -> "Page not found. Please check the URL and try again."
    [] kind = "ETIMEDOUT" -> "Request timed out. The website may be slow or unresponsive."
    [] OTHER -> "Failed to fetch website content: " \o kind

FetchFailures == { "ECONNREFUSED", "ENOTFOUND", "403", "404", "ETIMEDOUT", "socket hang up" }

(***************************************************************************)
(* What the model backend may answer to the call made for a list of        *)
(* questions, by shape.                                                    *)
(***************************************************************************)
AllAnswers(questions, answer, priority) ==
  LET One(q) == Answered(q, answer, "Evidence found by the model",
                         "Advice given by the model", priority)
  IN  [i \in 1..Len(questions) |-> One(questions[i])]

ExtraEntry == Answered("One more question?", "yes", "Evidence found by the model",
                       "Advice given by the model", "low")

JsonReply(v) ==
  Replies([empty |-> FALSE, direct |-> Parsed(v), hasObject |-> TRUE,
           object |-> Parsed(v), objectError |-> ""])

\* Prose around a JSON object: only the recovery step parses it.
WrappedReply(v) ==
  Replies([empty |-> FALSE, direct |-> ParseFail, hasObject |-> TRUE,
           object |-> Parsed(v), objectError |-> ""])

ShapeOutcome(shape, questions) ==
  CASE shape = "error"     -> Throws("Connection error.")
    [] shape = "ratelimit" -> Throws("429 rate limit exceeded")
    [] shape = "RateLimit" -> Throws("Rate limit reached for gpt-4")
    [] shape = "quota"     -> Throws("429 You exceeded your current quota")
    [] shape = "badkey"    -> Throws("401 invalid api key")
    [] shape = "timeout"   -> Throws("Request timeout after 600000ms")
    [] shape = "both"      -> Throws("quota reached, rate limit applies")
    [] shape = "empty"     -> Replies(NoReply)
    [] shape = "garbage"   ->
         Replies([empty |-> FALSE, direct |-> ParseFail, hasObject |-> FALSE,
                  object |-> ParseFail, objectError |-> ""])
    [] shape = "badobject" ->
         Replies([empty |-> FALSE, direct |-> ParseFail, hasObject |-> TRUE,
                  object |-> ParseFail,
                  objectError |-> "Unexpected token } in JSON at position 12"])
    [] shape = "yes"       -> JsonReply(QuestionsObject(AllAnswers(questions, "yes", "low")))
    [] shape = "nohigh"    -> JsonReply(QuestionsObject(AllAnswers(questions, "no", "high")))
    [] shape = "wrapped"   ->
         WrappedReply(QuestionsObject(AllAnswers(questions, "needs_work", "medium")))
    [] shape = "odd"       ->
         JsonReply(QuestionsObject(AllAnswers(questions, "maybe", "critical")))
    [] shape = "short"     ->
         JsonReply(QuestionsObject(
           SubSeq(AllAnswers(questions, "yes", "low"), 1, Len(questions) - 1)))
    [] shape = "long"      ->
         JsonReply(QuestionsObject(AllAnswers(questions, "yes", "low") \o <<ExtraEntry>>))
    [] shape = "nolist"    -> JsonReply(EmptyObjectJson)
    [] shape = "null"      -> JsonReply(NullJson)
    [] shape = "number"    -> JsonReply(NumberJson)
    [] shape = "strlist"   -> JsonReply(StringQuestionsJson)

Shapes ==
  { "error", "ratelimit", "RateLimit", "quota", "badkey", "timeout", "both", "empty",
    "garbage", "badobject", "yes", "nohigh", "wrapped", "odd", "short", "long", "nolist",
    "null", "number", "strlist" }

(***************************************************************************)
(* The POST handler (route.ts:534-707).  Each action runs the handler from *)
(* one await to the next.                                                  *)
(***************************************************************************)
\* At most this many model calls of one request are answered otherwise than
\* the backend's rule says.
MaxDeviations == 1

\* How the backend answers as a rule.
BackendRules == { "error", "yes" }

\* How it may answer a single call.
CallShapes ==
  { "error", "empty", "garbage", "badobject", "yes", "nohigh", "long", "nolist", "null",
    "strlist" }

NoBody == Body(TRUE, FALSE, "")

NoResult ==
  [url |-> "", croScore |-> 0, uxScore |-> 0, overallGrade |-> "",
   croAnalysis |-> <<>>, uxAnalysis |-> <<>>, recommendations |-> <<>>]

NoResponse == [status |-> 0, error |-> "", result |-> NoResult]
ErrorResponse(status, error) == [status |-> status, error |-> error, result |-> NoResult]
ResultResponse(result) == [status |-> 200, error |-> "", result |-> result]

Idle == [active |-> FALSE]

\* The state of an invocation of POST that has not read its request yet.
NotStarted ==
  [pc |-> "idle", url |-> NoBody, summary |-> Unfetched, croResults |-> <<>>,
   uxResults |-> <<>>, response |-> NoResponse, fetches |-> 0, modelCalls |-> 0,
   events |-> <<>>, caught |-> "", trackingError |-> FALSE]

Init ==
  /\ openaiKey \in BOOLEAN
  /\ posthogKey \in BOOLEAN
  /\ backend \in (IF openaiKey THEN BackendRules ELSE {"none"})
  /\ deviations = 0
  /\ pc = "idle"
  /\ url = NoBody
  /\ summary = Unfetched
  /\ croResults = <<>>
  /\ uxResults = <<>>
  /\ response = NoResponse
  /\ fetches = 0
  /\ modelCalls = 0
  /\ events = <<>>
  /\ caught = ""
  /\ trackingError = FALSE
  /\ parked = NotStarted
  /\ evalCall = Idle
  /\ gradeCall = Idle
  /\ recCall = Idle

\* route.ts:629-653: the AnalysisResult (its timestamp left out).
BuildResult(text, cro, ux) ==
  LET croScore == MathRoundHalves(calculateScore(flatMapQuestions(cro)))
      uxScore  == MathRoundHalves(calculateScore(flatMapQuestions(ux)))
  IN  [url |-> text, croScore |-> croScore, uxScore |-> uxScore,
       overallGrade |-> calculateOverallGrade(croScore, uxScore),
       croAnalysis |-> cro, uxAnalysis |-> ux,
       recommendations |-> generateRecommendations(cro, ux)]

CatchWithoutEvent(message) ==
  /\ caught' = message
  /\ events' = events
  /\ pc' = "done"
  /\ response' = ErrorResponse(500, "Analysis failed. Please try again.")

CatchAnswersBeforeEvent(message) ==
  /\ caught' = message
  /\ response' = ErrorResponse(500, "Analysis failed. Please try again.")
  /\ IF posthogKey
     THEN /\ events' = Append(events, "api_analysis_error")
          /\ pc' = "telemetry_error"
     ELSE /\ events' = events
          /\ pc' = "done"

\* The catch block of POST (route.ts:680-706) for an error with this message:
\* with telemetry it posts the error event and waits for it, then answers 500.
Catch(message) ==
  /\ caught' = message
  /\ IF posthogKey
     THEN /\ events' = Append(events, "api_analysis_error")
          /\ pc' = "telemetry_error"
          /\ response' = response
     ELSE /\ events' = events
          /\ pc' = "done"
          /\ response' = ErrorResponse(500, "Analysis failed. Please try again.")

\* route.ts:580-582: axios.get is issued.
StartFetch ==
  /\ fetches' = fetches + 1
  /\ pc' = "fetching"

\* route.ts:537-582: the body is read and the url validated; a valid request
\* goes on to the start event (with telemetry) or to the fetch.
ReceiveRequest(body) ==
  /\ pc = "idle"
  /\ url' = body
  /\ UNCHANGED <<trackingError, parked, openaiKey, posthogKey, backend, deviations, summary, croResults,
                 uxResults, modelCalls, evalCall, gradeCall, recCall>>
  /\ IF ~body.json THEN
       /\ Catch("Unexpected end of JSON input")
       /\ UNCHANGED fetches
     ELSE IF ~body.defined \/ body.text = "" THEN
       /\ response' = ErrorResponse(400, "URL is required")
       /\ pc' = "done"
       /\ UNCHANGED <<fetches, events, caught>>
     ELSE IF ~IsAbsoluteURL(body.text) THEN
       /\ response' = ErrorResponse(400, "Invalid URL format")
       /\ pc' = "done"
       /\ UNCHANGED <<fetches, events, caught>>
     ELSE IF posthogKey THEN
       /\ events' = Append(events, "api_analysis_started")
       /\ pc' = "telemetry_started"
       /\ UNCHANGED <<fetches, response, caught>>
     ELSE
       /\ StartFetch
       /\ UNCHANGED <<events, response, caught>>

TelemetryStartedAborts(ok) ==
  /\ pc = "telemetry_started"
  /\ trackingError' = (trackingError \/ ~ok)
  /\ IF ok
     THEN StartFetch /\ UNCHANGED <<response, events, caught>>
     ELSE Catch("Network Error") /\ UNCHANGED fetches
  /\ UNCHANGED <<parked, openaiKey, posthogKey, backend, deviations, url, summary,
                 croResults, uxResults, modelCalls, evalCall, gradeCall, recCall>>

\* route.ts:566-582: the start event's post settles, ok or not (a failure is
\* logged and swallowed), and the fetch is issued.
TelemetryStartedReturns(ok) ==
  /\ pc = "telemetry_started"
  /\ trackingError' = (trackingError \/ ~ok)
  /\ StartFetch
  /\ UNCHANGED <<parked, openaiKey, posthogKey, backend, deviations, url, summary, croResults,
                 uxResults, response, modelCalls, events, caught, evalCall, gradeCall,
                 recCall>>

FetchSucceedsShared(content) ==
  /\ pc = "fetching"
  /\ summary' = content
  /\ parked' = [parked EXCEPT !.summary = content]
  /\ pc' = "analyzing"
  /\ modelCalls' = IF openaiKey THEN modelCalls + 1 ELSE modelCalls
  /\ UNCHANGED <<trackingError, openaiKey, posthogKey, backend, deviations, url, croResults,
                 uxResults, response, fetches, events, caught, evalCall, gradeCall, recCall>>

\* route.ts:582-598: the fetch returns a ContentSummary and the evaluation of
\* the first CRO category starts (with a key, its model call is issued).
FetchSucceeds(content) ==
  /\ pc = "fetching"
  /\ summary' = content
  /\ pc' = "analyzing"
  /\ modelCalls' = IF openaiKey THEN modelCalls + 1 ELSE modelCalls
  /\ UNCHANGED <<trackingError, parked, openaiKey, posthogKey, backend, deviations, url, croResults, uxResults,
                 response, fetches, events, caught, evalCall, gradeCall, recCall>>

FetchFailsRetried(kind) ==
  /\ pc = "fetching"
  /\ IF fetches < 2
     THEN StartFetch /\ UNCHANGED <<events, response, caught>>
     ELSE Catch(FetchErrorMessage(kind)) /\ UNCHANGED fetches
  /\ UNCHANGED <<trackingError, parked, openaiKey, posthogKey, backend, deviations, url, summary, croResults,
                 uxResults, modelCalls, evalCall, gradeCall, recCall>>

\* route.ts:200-215, 680-706: the fetch throws.
FetchFails(kind) ==
  /\ pc = "fetching"
  /\ Catch(FetchErrorMessage(kind))
  /\ UNCHANGED <<trackingError, parked, openaiKey, posthogKey, backend, deviations, url, summary, croResults,
                 uxResults, fetches, modelCalls, evalCall, gradeCall, recCall>>

\* The category whose evaluation is awaited.
CurrentCategory ==
  IF Len(croResults) < Len(CRO_QUESTIONS)
  THEN CRO_QUESTIONS[Len(croResults) + 1]
  ELSE UX_QUESTIONS[Len(uxResults) + 1]

\* route.ts:603-607, 621-625
CategoryResult(category, analysis) ==
  [category |-> category.category, questions |-> analysis.items,
   score |-> CategoryScore(analysis.items, Len(category.questions))]

\* route.ts:598-627: the evaluator returns for the awaited category (with a
\* key, the backend has answered its call as the shape says).  The handler
\* reads analysis.questions.length and maps over analysis.questions, pushes
\* the CategoryResult and goes on to the next category or, after the last,
\* assembles the result and posts the completed event or answers.
AnalyzeCategory(shape) ==
  /\ pc = "analyzing"
  /\ IF openaiKey
     THEN \/ shape = backend /\ deviations' = deviations
          \/ shape # backend /\ deviations < MaxDeviations /\ deviations' = deviations + 1
     ELSE shape = "none" /\ deviations' = deviations
  /\ LET category == CurrentCategory
         outcome  == IF openaiKey THEN ShapeOutcome(shape, category.questions)
                     ELSE Replies(NoReply)
         analysis == analyzeWithAI(summary, category.questions, openaiKey, outcome)
         isCro    == Len(croResults) < Len(CRO_QUESTIONS)
         cro      == IF isCro THEN Append(croResults, CategoryResult(category, analysis))
                     ELSE croResults
         ux       == IF isCro THEN uxResults
                     ELSE Append(uxResults, CategoryResult(category, analysis))
         last     == Len(cro) = Len(CRO_QUESTIONS) /\ Len(ux) = Len(UX_QUESTIONS)
     IN  IF analysis.t = "null" THEN
           /\ Catch("Cannot read properties of null (reading 'questions')")
           /\ UNCHANGED <<croResults, uxResults, modelCalls>>
         ELSE IF analysis.q = "missing" THEN
           /\ Catch("Cannot read properties of undefined (reading 'length')")
           /\ UNCHANGED <<croResults, uxResults, modelCalls>>
         ELSE IF analysis.q # "list" THEN
           /\ Catch("analysis.questions.map is not a function")
           /\ UNCHANGED <<croResults, uxResults, modelCalls>>
         ELSE
           /\ croResults' = cro
           /\ uxResults' = ux
           /\ caught' = caught
           /\ IF ~last THEN
                /\ modelCalls' = IF openaiKey THEN modelCalls + 1 ELSE modelCalls
                /\ pc' = "analyzing"
                /\ UNCHANGED <<events, response>>
              ELSE IF posthogKey THEN
                /\ events' = Append(events, "api_analysis_completed")
                /\ pc' = "telemetry_completed"
                /\ UNCHANGED <<modelCalls, response>>
              ELSE
                /\ response' = ResultResponse(BuildResult(url.text, cro, ux))
                /\ pc' = "done"
                /\ UNCHANGED <<modelCalls, events>>
  /\ UNCHANGED <<trackingError, parked, openaiKey, posthogKey, backend, url, summary, fetches, evalCall,
                 gradeCall, recCall>>

\* route.ts:658-678: the completed event's post settles, ok or not, and the
\* result is returned.
TelemetryCompletedReturns(ok) ==
  /\ pc = "telemetry_completed"
  /\ trackingError' = (trackingError \/ ~ok)
  /\ response' = ResultResponse(BuildResult(url.text, croResults, uxResults))
  /\ pc' = "done"
  /\ UNCHANGED <<parked, openaiKey, posthogKey, backend, deviations, url, summary, croResults,
                 uxResults, fetches, modelCalls, events, caught, evalCall, gradeCall,
                 recCall>>

\* route.ts:685-705: the error event's post settles, ok or not, and the
\* failure is returned.
TelemetryErrorReturns(ok) ==
  /\ pc = "telemetry_error"
  /\ trackingError' = (trackingError \/ ~ok)
  /\ response' = ErrorResponse(500, "Analysis failed. Please try again.")
  /\ pc' = "done"
  /\ UNCHANGED <<parked, openaiKey, posthogKey, backend, deviations, url, summary, croResults,
                 uxResults, fetches, modelCalls, events, caught, evalCall, gradeCall,
                 recCall>>

\* One request under every backend outcome; the telemetry posts succeed.
Next ==
  \/ \E body \in Bodies : ReceiveRequest(body)
  \/ TelemetryStartedReturns(TRUE)
  \/ \E content \in FetchedContents : FetchSucceeds(content)
  \/ \E kind \in FetchFailures : FetchFails(kind)
  \/ \E shape \in (IF openaiKey THEN CallShapes ELSE {"none"}) : AnalyzeCategory(shape)
  \/ TelemetryCompletedReturns(TRUE)
  \/ TelemetryErrorReturns(TRUE)

Spec == Init /\ [][Next]_vars

(***************************************************************************)
(* One request whose telemetry posts succeed or fail, each on its own,     *)
(* under backend outcomes of each kind: placeholder answers, answers, and  *)
(* a value the handler cannot read.                                        *)
(***************************************************************************)
TelemetryShapes == { "error", "yes", "null" }

NextTelemetry ==
  \/ \E body \in Bodies : ReceiveRequest(body)
  \/ \E ok \in BOOLEAN : TelemetryStartedReturns(ok)
  \/ \E content \in FetchedContents : FetchSucceeds(content)
  \/ \E kind \in FetchFailures : FetchFails(kind)
  \/ \E shape \in (IF openaiKey THEN TelemetryShapes ELSE {"none"}) : AnalyzeCategory(shape)
  \/ \E ok \in BOOLEAN : TelemetryCompletedReturns(ok)
  \/ \E ok \in BOOLEAN : TelemetryErrorReturns(ok)

SpecTelemetry == Init /\ [][NextTelemetry]_vars

(***************************************************************************)
(* The grader on its own: calculateOverallGrade applied to every pair of   *)
(* scores the handler can pass to it.                                      *)
(***************************************************************************)
\* The divisors of route.ts:486, the sizes of the two question banks.
CroQuestionCount == 15
UxQuestionCount == 18

\* The handler stays out of a specification of a single function.
HandlerIdle ==
  /\ openaiKey = FALSE
  /\ posthogKey = FALSE
  /\ backend = "none"
  /\ deviations = 0
  /\ pc = "idle"
  /\ url = NoBody
  /\ summary = Unfetched
  /\ croResults = <<>>
  /\ uxResults = <<>>
  /\ response = NoResponse
  /\ fetches = 0
  /\ modelCalls = 0
  /\ events = <<>>
  /\ caught = ""
  /\ trackingError = FALSE
  /\ parked = NotStarted

GradeCalls ==
  { [active |-> TRUE, croScore |-> c, uxScore |-> u, returned |-> FALSE, grade |-> ""] :
      c \in 0..CroQuestionCount, u \in 0..UxQuestionCount }

InitGrade ==
  /\ HandlerIdle
  /\ evalCall = Idle
  /\ gradeCall \in GradeCalls
  /\ recCall = Idle

\* route.ts:485-492: the call returns.
Grade ==
  /\ gradeCall.active
  /\ ~gradeCall.returned
  /\ gradeCall' = [gradeCall EXCEPT
                     !.returned = TRUE,
                     !.grade = calculateOverallGrade(gradeCall.croScore, gradeCall.uxScore)]
  /\ UNCHANGED <<handlerVars, evalCall, recCall>>

NextGrade == Grade

SpecGrade == InitGrade /\ [][NextGrade]_vars

\* C7: for croScore in 0..15 and uxScore in 0..18 the grade is A, B, C, D or
\* F as total = croScore/15*0.5 + uxScore/18*0.5 is at least 0.90, 0.80,
\* 0.70, 0.60 or below that, each letter's lower bound included; total is
\* (6*croScore + 5*uxScore)/180, so the bounds are 162, 144, 126 and 108 in
\* units of 1/180.  (15,18) gives A, (0,0) gives F and (12,12) gives C.
C7_GradeThresholds ==
  (gradeCall.active /\ gradeCall.returned) =>
    LET t == 6 * gradeCall.croScore + 5 * gradeCall.uxScore
        g == gradeCall.grade
    IN  /\ g = "A" <=> 10 * t >= 9 * 180
        /\ g = "B" <=> 10 * t >= 8 * 180 /\ 10 * t < 9 * 180
        /\ g = "C" <=> 10 * t >= 7 * 180 /\ 10 * t < 8 * 180
        /\ g = "D" <=> 10 * t >= 6 * 180 /\ 10 * t < 7 * 180
        /\ g = "F" <=> 10 * t < 6 * 180
        /\ (gradeCall.croScore = 15 /\ gradeCall.uxScore = 18) => g = "A"
        /\ (gradeCall.croScore = 0 /\ gradeCall.uxScore = 0) => g = "F"
        /\ (gradeCall.croScore = 12 /\ gradeCall.uxScore = 12) => g = "C"

\* A total that sits exactly on the lower bound of A has been graded.
C7_Witness ==
  /\ gradeCall.active
  /\ gradeCall.returned
  /\ gradeCall.croScore = 12
  /\ gradeCall.uxScore = 18
  /\ gradeCall.grade = "A"

(***************************************************************************)
(* The evaluator on its own: one call of analyzeWithAI, its inputs drawn   *)
(* from bounded sets.                                                      *)
(***************************************************************************)
\* Lists of made-up question texts have at most this many entries.
MaxEvalQuestions == 2

EvalContents ==
  { BareContent, RichContent,
    [title |-> "Shop", description |-> "", headings |-> <<"Our Story">>,
     images |-> <<"", "hero">>, forms |-> 1, buttons |-> 0, status |-> 200],
    [title |-> "Shop", description |-> "Buy things", headings |-> <<"SALE", "Fees">>,
     images |-> <<>>, forms |-> 0, buttons |-> 3, status |-> 200] }

\* Texts outside the question banks: they reach the call-to-action and the
\* navigation rule, the default, and the lower-casing of the question.
EvalTexts ==
  { "Is the CTA visible?", "Is the NAVIGATION intuitive?", "Does it sparkle?",
    "Are images described with Alt Text?" }

BankQuestionLists ==
  { CRO_QUESTIONS[i].questions : i \in 1..Len(CRO_QUESTIONS) }
    \cup { UX_QUESTIONS[i].questions : i \in 1..Len(UX_QUESTIONS) }

\* The value-proposition and the call-to-action question of the bank, as a
\* category of their own.
ScenarioQuestions == SubSeq(CRO_QUESTIONS[1].questions, 1, 2)

EvalQuestionLists ==
  BankQuestionLists \cup { ScenarioQuestions }
    \cup UNION { [1..n -> EvalTexts] : n \in 0..MaxEvalQuestions }

EvalCalls ==
  { [active |-> TRUE, content |-> c, questions |-> qs, hasKey |-> key, shape |-> sh,
     outcome |-> IF key THEN ShapeOutcome(sh, qs) ELSE Replies(NoReply),
     returned |-> FALSE, value |-> NullJson] :
      c \in EvalContents, qs \in EvalQuestionLists,
      <<key, sh>> \in ({TRUE} \X Shapes) \cup {<<FALSE, "none">>} }

InitEval ==
  /\ HandlerIdle
  /\ evalCall \in EvalCalls
  /\ gradeCall = Idle
  /\ recCall = Idle

\* route.ts:218-325: the call returns.
Evaluate ==
  /\ evalCall.active
  /\ ~evalCall.returned
  /\ evalCall' = [evalCall EXCEPT
                    !.returned = TRUE,
                    !.value = analyzeWithAI(evalCall.content, evalCall.questions,
                                            evalCall.hasKey, evalCall.outcome)]
  /\ UNCHANGED <<handlerVars, gradeCall, recCall>>

NextEval == Evaluate

SpecEval == InitEval /\ [][NextEval]_vars

\* C1: whatever the backend outcome, the value analyzeWithAI returns carries
\* a list of answers with exactly as many entries as there were questions,
\* and its i-th entry answers the i-th question.
C1_OneAnswerPerQuestion ==
  (evalCall.active /\ evalCall.returned) =>
    /\ evalCall.value.t = "object"
    /\ evalCall.value.q = "list"
    /\ Len(evalCall.value.items) = Len(evalCall.questions)
    /\ \A i \in 1..Len(evalCall.questions) :
         evalCall.value.items[i].question = evalCall.questions[i]

\* C3: when the model call throws, its reply is empty or the reply cannot be
\* parsed, the value returned is that of performFallbackAnalysis on the same
\* ContentSummary and questions.
C3_FailureGivesHeuristicAnswers ==
  (evalCall.active /\ evalCall.returned) =>
    LET o == evalCall.outcome
        failed == \/ o.kind = "throw"
                  \/ o.reply.empty
                  \/ ~o.reply.direct.ok /\ ~(o.reply.hasObject /\ o.reply.object.ok)
    IN  (evalCall.hasKey /\ failed) =>
          evalCall.value = performFallbackAnalysis(evalCall.content, evalCall.questions)

\* C4: without a backend key the evaluator returns, without throwing, one
\* record per question, in order, with the five fields question, answer,
\* evidence, recommendation and priority, answer one of yes, no and
\* needs_work and priority one of high, medium and low.
C4_NoKeyAnswersWellFormed ==
  (evalCall.active /\ evalCall.returned /\ ~evalCall.hasKey) =>
    LET items == evalCall.value.items
    IN  /\ ~TryModel(evalCall.content, evalCall.questions, FALSE, evalCall.outcome).threw
        /\ evalCall.value.t = "object"
        /\ evalCall.value.q = "list"
        /\ Len(items) = Len(evalCall.questions)
        /\ \A i \in 1..Len(items) :
             /\ DOMAIN items[i]
                  = { "question", "answer", "evidence", "recommendation", "priority" }
             /\ items[i].question = evalCall.questions[i]
             /\ items[i].answer \in { "yes", "no", "needs_work" }
             /\ items[i].priority \in { "high", "medium", "low" }

\* Without a key, a page without buttons is asked about its CTA and about
\* something no rule covers.
C4_Witness ==
  /\ evalCall.active
  /\ evalCall.returned
  /\ ~evalCall.hasKey
  /\ evalCall.questions = <<"Is the CTA visible?", "Does it sparkle?">>
  /\ evalCall.content.buttons = 0
  /\ evalCall.value.items[1].answer = "no"
  /\ evalCall.value.items[1].priority = "high"
  /\ evalCall.value.items[2].answer = "needs_work"
  /\ evalCall.value.items[2].evidence = DefaultEvidence

\* C2: once the content fetch has succeeded (the ContentSummary carries its
\* status), the request ends with a successful AnalysisResult that holds all
\* 7 CRO and all 8 UX CategoryResults, whatever the model answered.
C2_EvaluationNeverAborts ==
  (pc = "done" /\ summary.status = 200) =>
    /\ response.status = 200
    /\ Len(response.result.croAnalysis) = Len(CRO_QUESTIONS)
    /\ Len(response.result.uxAnalysis) = Len(UX_QUESTIONS)
    /\ Len(CRO_QUESTIONS) = 7
    /\ Len(UX_QUESTIONS) = 8

\* C5: every CategoryResult c of a returned AnalysisResult has an integer
\* score in 0..100 equal to round(100 * points / entries), points the sum
\* over c.questions of 1 for yes, 0.5 for needs_work and 0 for no, entries
\* the number of entries of c.questions.
C5_CategoryScore ==
  response.status = 200 =>
    \A list \in { response.result.croAnalysis, response.result.uxAnalysis } :
      \A k \in 1..Len(list) :
        LET qs == list[k].questions
            n  == Len(qs)
            halves == 2 * Cardinality({ i \in 1..n : qs[i].answer = "yes" })
                        + Cardinality({ i \in 1..n : qs[i].answer = "needs_work" })
        IN  /\ list[k].score \in 0..100
            /\ n > 0
            /\ list[k].score = (100 * halves + n) \div (2 * n)

\* C6: in a returned AnalysisResult croScore is an integer in 0..15 and
\* uxScore one in 0..18, each the rounded sum of the point values (yes 1,
\* needs_work 0.5, no 0) of the answered questions of its analysis.
C6_TotalScores ==
  response.status = 200 =>
    LET Halves(list) ==
          LET qs == flatMapQuestions(list)
          IN  2 * Cardinality({ i \in 1..Len(qs) : qs[i].answer = "yes" })
                + Cardinality({ i \in 1..Len(qs) : qs[i].answer = "needs_work" })
        r == response.result
    IN  /\ r.croScore \in 0..15
        /\ r.uxScore \in 0..18
        /\ r.croScore = (Halves(r.croAnalysis) + 1) \div 2
        /\ r.uxScore = (Halves(r.uxAnalysis) + 1) \div 2

\* C10: a request without a url, or with an empty one, is answered 400 'URL
\* is required', and one whose url is not an absolute URL 400 'Invalid URL
\* format'; neither causes a fetch, a model call or a telemetry event.
C10_BadRequestsRejectedUntouched ==
  pc # "idle" =>
    /\ (~url.defined \/ url.text = "") =>
         /\ pc = "done"
         /\ response = ErrorResponse(400, "URL is required")
         /\ fetches = 0
         /\ modelCalls = 0
         /\ events = <<>>
    /\ (url.defined /\ url.text \in { "not a url", "example.com", "http://" }) =>
         /\ pc = "done"
         /\ response = ErrorResponse(400, "Invalid URL format")
         /\ fetches = 0
         /\ modelCalls = 0
         /\ events = <<>>

(***************************************************************************)
(* The ranker on its own: generateRecommendations applied to analyses      *)
(* built from a few patterns of answers and priorities.  The two analyses  *)
(* use the same question texts, so an entry is told from its twin in the   *)
(* other list only by the list it came from.                               *)
(***************************************************************************)
\* An analysis has at most this many categories.
MaxRecCategories == 2

Finding(answer, priority) == [answer |-> answer, priority |-> priority]

RecPatterns ==
  { << Finding("no", "high"), Finding("needs_work", "high"), Finding("no", "high") >>,
    << Finding("needs_work", "medium"), Finding("no", "medium") >>,
    << Finding("yes", "high"), Finding("no", "low"), Finding("needs_work", "medium"),
       Finding("no", "high"), Finding("yes", "medium"), Finding("needs_work", "low") >>,
    << Finding("maybe", "high"), Finding("no", "critical") >>,
    << >> }

RecCategory(k, pattern) ==
  LET One(i) ==
        Answered("Question " \o ToString(k) \o "." \o ToString(i) \o "?",
                 pattern[i].answer, "Evidence " \o ToString(k) \o "." \o ToString(i),
                 "Advice " \o ToString(k) \o "." \o ToString(i), pattern[i].priority)
      questions == [i \in 1..Len(pattern) |-> One(i)]
  IN  [category |-> "Category " \o ToString(k), questions |-> questions,
       score |-> IF Len(pattern) = 0 THEN 0 ELSE CategoryScore(questions, Len(pattern))]

RecAnalyses ==
  { [k \in 1..Len(patterns) |-> RecCategory(k, patterns[k])] :
      patterns \in UNION { [1..n -> RecPatterns] : n \in 0..MaxRecCategories } }

RecCalls ==
  { [active |-> TRUE, croAnalysis |-> cro, uxAnalysis |-> ux, returned |-> FALSE,
     recommendations |-> <<>>] : cro \in RecAnalyses, ux \in RecAnalyses }

InitRec ==
  /\ HandlerIdle
  /\ evalCall = Idle
  /\ gradeCall = Idle
  /\ recCall \in RecCalls

\* route.ts:494-532: the call returns.
Generate ==
  /\ recCall.active
  /\ ~recCall.returned
  /\ recCall' = [recCall EXCEPT
                   !.returned = TRUE,
                   !.recommendations =
                      generateRecommendations(recCall.croAnalysis, recCall.uxAnalysis)]
  /\ UNCHANGED <<handlerVars, evalCall, gradeCall>>

NextRec == Generate

SpecRec == InitRec /\ [][NextRec]_vars

\* C8: generateRecommendations returns at most 8 recommendations, at most 5
\* of priority high followed by at most 3 of priority medium; the k-th high
\* one comes from the k-th finding, in source order, that has priority high
\* and an answer other than yes, the k-th medium one from the k-th such
\* finding of priority medium.  Source order is: CRO before UX, then the
\* order of the categories, then the order of the questions.
C8_CappedInSourceOrder ==
  (recCall.active /\ recCall.returned) =>
    LET A(l) == IF l = 1 THEN recCall.croAnalysis ELSE recCall.uxAnalysis
        Places == UNION { { <<p[1], p[2], i>> : i \in 1..Len(A(p[1])[p[2]].questions) } :
                            p \in { c \in (1..2) \X (1..Len(A(1)) + Len(A(2))) :
                                      c[2] <= Len(A(c[1])) } }
        At(t) == A(t[1])[t[2]].questions[t[3]]
        Before(s, t) == \/ s[1] < t[1]
                        \/ s[1] = t[1] /\ s[2] < t[2]
                        \/ s[1] = t[1] /\ s[2] = t[2] /\ s[3] < t[3]
        Qualifying(p) == { t \in Places : At(t).priority = p /\ At(t).answer # "yes" }
        Rank(t, S) == Cardinality({ s \in S : Before(s, t) }) + 1
        Least(a, b) == IF a < b THEN a ELSE b
        H == Qualifying("high")
        M == Qualifying("medium")
        nH == Least(Cardinality(H), 5)
        nM == Least(Cardinality(M), 3)
        R == recCall.recommendations
    IN  /\ Len(R) <= 8
        /\ Len(R) = nH + nM
        /\ \A k \in 1..nH :
             /\ R[k].priority = "high"
             /\ \E t \in H : /\ Rank(t, H) = k
                             /\ R[k].title = "Fix: " \o At(t).question
                             /\ R[k].category = (IF t[1] = 1 THEN "cro" ELSE "ux")
        /\ \A k \in 1..nM :
             /\ R[nH + k].priority = "medium"
             /\ \E t \in M : /\ Rank(t, M) = k
                             /\ R[nH + k].title = "Improve: " \o At(t).question
                             /\ R[nH + k].category = (IF t[1] = 1 THEN "cro" ELSE "ux")

\* Six findings qualify as high and four as medium: both caps cut.
C8_Witness ==
  /\ recCall.active
  /\ recCall.returned
  /\ Len(recCall.croAnalysis) = 2
  /\ Len(recCall.uxAnalysis) = 2
  /\ \A k \in 1..2 : \A i \in 1..3 :
       /\ Len(recCall.croAnalysis[k].questions) = 3
       /\ recCall.croAnalysis[k].questions[i].priority = "high"
       /\ recCall.croAnalysis[k].questions[i].answer # "yes"
  /\ \A k \in 1..2 : \A i \in 1..2 :
       /\ Len(recCall.uxAnalysis[k].questions) = 2
       /\ recCall.uxAnalysis[k].questions[i].priority = "medium"
       /\ recCall.uxAnalysis[k].questions[i].answer # "yes"
  /\ Len(recCall.recommendations) = 8
  /\ recCall.recommendations[5].title = "Fix: Question 2.2?"
  /\ recCall.recommendations[6].title = "Improve: Question 1.1?"
  /\ recCall.recommendations[8].title = "Improve: Question 2.1?"

\* C9: every recommendation derives from exactly one finding of the two
\* analyses, one whose answer is not yes and whose priority, high or medium,
\* is the recommendation's; the title is "Fix: " and the question for high,
\* "Improve: " and the question for medium, the description the finding's
\* recommendation.  A finding of priority low, or answered yes, produces no
\* recommendation.
C9_DerivedFromOneFinding ==
  (recCall.active /\ recCall.returned) =>
    LET A(l) == IF l = 1 THEN recCall.croAnalysis ELSE recCall.uxAnalysis
        Places == UNION { { <<p[1], p[2], i>> : i \in 1..Len(A(p[1])[p[2]].questions) } :
                            p \in { c \in (1..2) \X (1..Len(A(1)) + Len(A(2))) :
                                      c[2] <= Len(A(c[1])) } }
        At(t) == A(t[1])[t[2]].questions[t[3]]
        R == recCall.recommendations
        Names(r, t) == /\ r.title \in { "Fix: " \o At(t).question,
                                        "Improve: " \o At(t).question }
                       /\ r.category = (IF t[1] = 1 THEN "cro" ELSE "ux")
        Derived(r, t) ==
          /\ At(t).answer # "yes"
          /\ r.priority \in { "high", "medium" }
          /\ At(t).priority = r.priority
          /\ r.title = (IF r.priority = "high" THEN "Fix: " ELSE "Improve: ")
                          \o At(t).question
          /\ r.description = At(t).recommendation
          /\ r.category = (IF t[1] = 1 THEN "cro" ELSE "ux")
    IN  /\ \A k \in 1..Len(R) : Cardinality({ t \in Places : Derived(R[k], t) }) = 1
        /\ \A t \in Places :
             (At(t).priority = "low" \/ At(t).answer = "yes") =>
               \A k \in 1..Len(R) : ~Names(R[k], t)

\* Findings answered yes and findings of priority low stand next to ones that
\* qualify, in both lists.
C9_Witness ==
  /\ recCall.active
  /\ recCall.returned
  /\ Len(recCall.croAnalysis) = 1
  /\ Len(recCall.uxAnalysis) = 1
  /\ Len(recCall.croAnalysis[1].questions) = 6
  /\ recCall.croAnalysis[1].questions[1].answer = "yes"
  /\ recCall.croAnalysis[1].questions[1].priority = "high"
  /\ recCall.croAnalysis[1].questions[2].answer = "no"
  /\ recCall.croAnalysis[1].questions[2].priority = "low"
  /\ Len(recCall.uxAnalysis[1].questions) = 6
  /\ Len(recCall.recommendations) = 4
  /\ recCall.recommendations[1].title = "Fix: Question 1.4?"
  /\ recCall.recommendations[1].category = "cro"
  /\ recCall.recommendations[2].title = "Fix: Question 1.4?"
  /\ recCall.recommendations[2].category = "ux"
  /\ recCall.recommendations[3].title = "Improve: Question 1.3?"
  /\ recCall.recommendations[3].description = "Advice 1.3"

\* C11: once the content fetch has failed (the handler is past the fetch and
\* holds no ContentSummary) the analysis is over: the fetch was issued exactly
\* once, no model call is issued and no category evaluated, no AnalysisResult
\* is built, and the response is an error.
C11_FetchFailureAborts ==
  (pc \in { "telemetry_error", "done" } /\ fetches > 0 /\ summary.status = 0) =>
    /\ fetches = 1
    /\ modelCalls = 0
    /\ croResults = <<>>
    /\ uxResults = <<>>
    /\ caught # ""
    /\ response.result = NoResult
    /\ pc = "done" => (response.status = 500 /\ response.error # "")

\* The fetch timed out and the request has been answered.
C11_Witness ==
  /\ pc = "done"
  /\ fetches = 1
  /\ summary.status = 0
  /\ caught = "Request timed out. The website may be slow or unresponsive."
  /\ response.status = 500

\* C14: with a backend key and the content fetched, the model is called once
\* per category, one call at a time, the 7 CRO categories in Question Bank
\* order and then the 8 UX categories in Question Bank order, never twice for
\* a category; a finished analysis has made 15 calls, and croAnalysis and
\* uxAnalysis list the categories in Question Bank order.
C14_OneCallPerCategoryInOrder ==
  (openaiKey /\ summary.status = 200) =>
    /\ modelCalls <= Len(croResults) + Len(uxResults) + 1
    /\ pc = "analyzing" => modelCalls = Len(croResults) + Len(uxResults) + 1
    /\ Len(uxResults) > 0 => Len(croResults) = Len(CRO_QUESTIONS)
    /\ \A k \in 1..Len(croResults) : croResults[k].category = CRO_QUESTIONS[k].category
    /\ \A k \in 1..Len(uxResults) : uxResults[k].category = UX_QUESTIONS[k].category
    /\ pc = "done" =>
         /\ modelCalls = 15
         /\ response.status = 200
         /\ Len(response.result.croAnalysis) = 7
         /\ Len(response.result.uxAnalysis) = 8
         /\ \A k \in 1..7 :
              response.result.croAnalysis[k].category = CRO_QUESTIONS[k].category
         /\ \A k \in 1..8 :
              response.result.uxAnalysis[k].category = UX_QUESTIONS[k].category

\* C15: without a key, each question is answered by the first rule, in the
\* order value proposition/clear, call-to-action/cta, testimonial/review,
\* form/lead capture, mobile/responsive, speed/load, accessibility/alt text,
\* navigation/hierarchy, tracking/analytics, a/b testing/experiment,
\* urgency/scarcity, pricing/cost, one of whose keywords occurs in the
\* lower-cased question, and by that rule only (its recommendation is one of
\* that rule's); a question with none of the keywords is answered
\* needs_work, medium, with the generic evidence and recommendation.
C15_FirstMatchingRule ==
  (evalCall.active /\ evalCall.returned /\ ~evalCall.hasKey) =>
    LET generic == "Review this aspect manually for detailed insights"
        rules ==
          << [keys |-> { "value proposition", "clear" },
              advice |-> { "Ensure your value proposition is prominently displayed above the fold",
                           generic }],
             [keys |-> { "call-to-action", "cta" },
              advice |-> { "Ensure CTAs are clear, prominent, and action-oriented",
                           "Add clear call-to-action buttons to guide user behavior" }],
             [keys |-> { "testimonial", "review" },
              advice |-> { "Ensure testimonials are prominently displayed and credible",
                           "Add customer testimonials and reviews to build trust" }],
             [keys |-> { "form", "lead capture" },
              advice |-> { "Optimize forms for conversion with minimal fields and clear labels",
                           "Add lead capture forms to collect visitor information" }],
             [keys |-> { "mobile", "responsive" },
              advice |-> { "Test website on various mobile devices and screen sizes" }],
             [keys |-> { "speed", "load" },
              advice |-> { "Use tools like Google PageSpeed Insights to measure and optimize loading speed" }],
             [keys |-> { "accessibility", "alt text" },
              advice |-> { "Maintain accessibility standards for all new images",
                           "Add alt text to all images for better accessibility",
                           "Ensure all images have descriptive alt text when added" }],
             [keys |-> { "navigation", "hierarchy" },
              advice |-> { "Ensure navigation follows logical information hierarchy",
                           "Improve content structure with proper heading hierarchy" }],
             [keys |-> { "tracking", "analytics" },
              advice |-> { "Verify Google Analytics or other tracking tools are properly configured" }],
             [keys |-> { "a/b testing", "experiment" },
              advice |-> { "Consider implementing A/B testing tools like Optimizely or Google Optimize" }],
             [keys |-> { "urgency", "scarcity" },
              advice |-> { "Ensure urgency elements are genuine and not misleading",
                           "Consider adding limited-time offers or scarcity indicators" }],
             [keys |-> { "pricing", "cost" },
              advice |-> { "Ensure pricing is clear, transparent, and easy to understand",
                           "Make pricing information clear and accessible to visitors" }] >>
        items == evalCall.value.items
    IN  /\ Len(items) = Len(evalCall.questions)
        /\ \A i \in 1..Len(items) :
             LET low  == toLowerCase(evalCall.questions[i])
                 hits == { r \in 1..Len(rules) : \E key \in rules[r].keys : includes(low, key) }
             IN  IF hits = {}
                 THEN /\ items[i].answer = "needs_work"
                      /\ items[i].priority = "medium"
                      /\ items[i].evidence = "Basic analysis based on available content"
                      /\ items[i].recommendation = generic
                 ELSE \E r \in hits :
                        /\ \A other \in hits : r <= other
                        /\ items[i].recommendation \in rules[r].advice

\* The second question of the first CRO category holds both "clear" and
\* "cta": on a page with title and description the first rule answers it.
C15_Witness ==
  /\ evalCall.active
  /\ evalCall.returned
  /\ ~evalCall.hasKey
  /\ evalCall.content = RichContent
  /\ evalCall.questions = CRO_QUESTIONS[1].questions
  /\ evalCall.questions[2] = "Are there multiple clear calls-to-action (CTAs) on the page?"
  /\ evalCall.value.items[2].answer = "yes"
  /\ evalCall.value.items[2].evidence = "Website has a title and description"

\* C16: without a key, for a page with no form, no button, no title and no
\* description, the Question Bank's call-to-action question (the second of
\* 'Offers & Messaging') and a lead-capture question (one of 'Lead Capture &
\* Forms') are answered no with priority high, and the first two
\* recommendations of the result are the high-priority "Fix: " entries of
\* these two questions.
C16_BarePageScenario ==
  (response.status = 200 /\ ~openaiKey /\ summary = BareContent) =>
    LET cta   == response.result.croAnalysis[1].questions[2]
        leads == response.result.croAnalysis[4].questions
        recs  == response.result.recommendations
    IN  /\ cta.question = "Are there multiple clear calls-to-action (CTAs) on the page?"
        /\ cta.answer = "no"
        /\ cta.priority = "high"
        /\ response.result.croAnalysis[4].category = "Lead Capture & Forms"
        /\ \E i \in 1..Len(leads) :
             /\ leads[i].answer = "no"
             /\ leads[i].priority = "high"
             /\ Len(recs) >= 2
             /\ recs[1].priority = "high"
             /\ recs[2].priority = "high"
             /\ { recs[1].title, recs[2].title }
                  = { "Fix: " \o cta.question, "Fix: " \o leads[i].question }

\* C17: without a key, for a page with 2 forms, 5 buttons, title "Example"
\* and description "A test site", the value-proposition question and the
\* call-to-action question are both answered yes, and the CategoryResult of a
\* category of exactly these two questions has score 100.
C17_RichPageScenario ==
  ( /\ evalCall.active
    /\ evalCall.returned
    /\ ~evalCall.hasKey
    /\ evalCall.content.forms = 2
    /\ evalCall.content.buttons = 5
    /\ evalCall.content.title = "Example"
    /\ evalCall.content.description = "A test site"
    /\ evalCall.questions
         = << "Is there a clear, compelling value proposition above the fold?",
              "Are there multiple clear calls-to-action (CTAs) on the page?" >> ) =>
    /\ Len(evalCall.value.items) = 2
    /\ evalCall.value.items[1].answer = "yes"
    /\ evalCall.value.items[2].answer = "yes"
    /\ CategoryResult([category |-> "Scenario", questions |-> evalCall.questions],
                      evalCall.value).score = 100

\* The scenario's call has returned.
C17_Witness ==
  /\ evalCall.active
  /\ evalCall.returned
  /\ ~evalCall.hasKey
  /\ evalCall.content = RichContent
  /\ RichContent.forms = 2
  /\ RichContent.buttons = 5
  /\ RichContent.title = "Example"
  /\ RichContent.description = "A test site"
  /\ evalCall.questions = ScenarioQuestions
  /\ evalCall.value.items[1].answer = "yes"
  /\ evalCall.value.items[2].answer = "yes"

(***************************************************************************)
(* C18: the question bank is fixed: the conversion catalog has 7           *)
(* categories holding 4, 2, 2, 2, 1, 2 and 2 questions (15 in all), the    *)
(* usability catalog has 8 categories holding 2, 3, 2, 3, 2, 2, 2 and 2    *)
(* questions (18 in all), these totals are the denominators of the grade,  *)
(* and whatever a request has done so far, the categories it has analysed  *)
(* are the leading categories of these catalogs and a finished analysis    *)
(* holds exactly one entry for each of them.                               *)
(***************************************************************************)
C18_QuestionBankFixed ==
  LET count(bank) == [k \in 1..Len(bank) |-> Len(bank[k].questions)]
      names(bank) == [k \in 1..Len(bank) |-> bank[k].category]
      done(results) == [k \in 1..Len(results) |-> results[k].category]
  IN  /\ count(CRO_QUESTIONS) = <<4, 2, 2, 2, 1, 2, 2>>
      /\ count(UX_QUESTIONS) = <<2, 3, 2, 3, 2, 2, 2, 2>>
      /\ Len(flatMapQuestions(CRO_QUESTIONS)) = CroQuestionCount
      /\ Len(flatMapQuestions(UX_QUESTIONS)) = UxQuestionCount
      /\ names(CRO_QUESTIONS) =
           << "Offers & Messaging", "Social Proof & Trust", "Analytics & Tracking",
              "Lead Capture & Forms", "Urgency & Scarcity", "Pricing & Friction",
              "Speed & Experimentation" >>
      /\ Len(croResults) <= Len(CRO_QUESTIONS)
      /\ Len(uxResults) <= Len(UX_QUESTIONS)
      /\ done(croResults) = SubSeq(names(CRO_QUESTIONS), 1, Len(croResults))
      /\ done(uxResults) = SubSeq(names(UX_QUESTIONS), 1, Len(uxResults))
      /\ response.status = 200 =>
           /\ done(response.result.croAnalysis) = names(CRO_QUESTIONS)
           /\ done(response.result.uxAnalysis) = names(UX_QUESTIONS)

C18_Witness ==
  /\ pc = "done"
  /\ response.status = 200
  /\ ~openaiKey
  /\ Len(flatMapQuestions(response.result.croAnalysis)) = CroQuestionCount
  /\ Len(flatMapQuestions(response.result.uxAnalysis)) = UxQuestionCount

(***************************************************************************)
(* C20: when the call to a configured backend throws, or its reply is      *)
(* empty or cannot be parsed, also after the recovery step, every question *)
(* is answered needs_work with priority medium, and the evidence is the    *)
(* rate-limit, quota, bad-key, timeout or malformed-response text whenever *)
(* that is the cause; only another cause gets the generic text.  A reply   *)
(* that neither parse accepts counts as a malformed response.              *)
(***************************************************************************)
C20_FailureNamesItsCause ==
  (evalCall.active /\ evalCall.returned /\ evalCall.hasKey) =>
    LET o == evalCall.outcome
        unparseable == /\ o.kind = "reply"
                       /\ ~o.reply.empty
                       /\ ~o.reply.direct.ok
                       /\ ~(o.reply.hasObject /\ o.reply.object.ok)
        failed == o.kind = "throw" \/ o.reply.empty \/ unparseable
        causes ==
          CASE evalCall.shape \in { "ratelimit", "RateLimit" } ->
                 { "OpenAI rate limit exceeded. Please try again in a few minutes." }
            [] evalCall.shape = "quota" ->
                 { "OpenAI quota exceeded. Please check your API usage." }
            [] evalCall.shape = "both" ->
                 { "OpenAI rate limit exceeded. Please try again in a few minutes.",
                   "OpenAI quota exceeded. Please check your API usage." }
            [] evalCall.shape = "badkey" ->
                 { "Invalid OpenAI API key. Please check your configuration." }
            [] evalCall.shape = "timeout" ->
                 { "AI analysis timed out. The request took too long to process." }
            [] unparseable ->
                 { "AI response format error. The analysis could not be parsed." }
            [] OTHER -> { "Unable to analyze due to technical issues" }
        items == evalCall.value.items
    IN  failed =>
          /\ Len(items) = Len(evalCall.questions)
          /\ \A i \in 1..Len(items) :
               /\ items[i].question = evalCall.questions[i]
               /\ items[i].answer = "needs_work"
               /\ items[i].priority = "medium"
               /\ items[i].evidence \in causes

(***************************************************************************)
(* C13: telemetry never affects the result.  The response of a finished    *)
(* request is the same function of the request body, the outcome of the    *)
(* fetch and the category results the model outcomes gave, whether the     *)
(* telemetry key is set or not and whether any of the telemetry posts      *)
(* failed or not: a valid url is fetched exactly once, the only errors the *)
(* handler's catch block sees are those of the body, the fetch and the     *)
(* evaluation, and a request that got all its category results answers 200 *)
(* with the result built from them.                                        *)
(***************************************************************************)
C13_TelemetryNeverAffectsResult ==
  LET valid == url.json /\ url.defined /\ url.text # "" /\ IsAbsoluteURL(url.text)
      complete == Len(croResults) = Len(CRO_QUESTIONS) /\ Len(uxResults) = Len(UX_QUESTIONS)
      expected ==
        IF ~url.json THEN ErrorResponse(500, "Analysis failed. Please try again.")
        ELSE IF ~url.defined \/ url.text = "" THEN ErrorResponse(400, "URL is required")
        ELSE IF ~IsAbsoluteURL(url.text) THEN ErrorResponse(400, "Invalid URL format")
        ELSE IF summary.status = 0 \/ ~complete
          THEN ErrorResponse(500, "Analysis failed. Please try again.")
        ELSE ResultResponse(BuildResult(url.text, croResults, uxResults))
  IN  /\ pc \in { "fetching", "analyzing", "telemetry_completed" } => (valid /\ fetches = 1)
      /\ pc \in { "telemetry_error", "done" } => fetches = (IF valid THEN 1 ELSE 0)
      /\ caught \in { "", "Unexpected end of JSON input",
                      "Cannot read properties of null (reading 'questions')",
                      "Cannot read properties of undefined (reading 'length')",
                      "analysis.questions.map is not a function" }
                    \cup { FetchErrorMessage(kind) : kind \in FetchFailures }
      /\ pc = "done" => response = expected

C13_Witness ==
  /\ pc = "done"
  /\ posthogKey
  /\ trackingError
  /\ events = << "api_analysis_started", "api_analysis_completed" >>
  /\ response.status = 200
  /\ response.result.url = url.text

(***************************************************************************)
(* Two invocations of POST served by one process.  JavaScript runs one of  *)
(* them at a time and changes to the other only while the running one is   *)
(* suspended at an await; every value of pc is such a point.  The keys and *)
(* the backend are shared (route.ts:5-12); everything else is local to an  *)
(* invocation.  The backend answers every call as its rule says, and the   *)
(* process runs without a telemetry key.                                   *)
(***************************************************************************)
\* The local state of the running invocation.
Current ==
  [pc |-> pc, url |-> url, summary |-> summary, croResults |-> croResults,
   uxResults |-> uxResults, response |-> response, fetches |-> fetches,
   modelCalls |-> modelCalls, events |-> events, caught |-> caught,
   trackingError |-> trackingError]

\* The running invocation is suspended and the other one resumed.
Switch ==
  /\ parked # Current
  /\ parked' = Current
  /\ pc' = parked.pc
  /\ url' = parked.url
  /\ summary' = parked.summary
  /\ croResults' = parked.croResults
  /\ uxResults' = parked.uxResults
  /\ response' = parked.response
  /\ fetches' = parked.fetches
  /\ modelCalls' = parked.modelCalls
  /\ events' = parked.events
  /\ caught' = parked.caught
  /\ trackingError' = parked.trackingError
  /\ UNCHANGED <<openaiKey, posthogKey, backend, deviations, evalCall, gradeCall, recCall>>

PairBodies ==
  { Body(TRUE, TRUE, "https://example.com"), Body(TRUE, TRUE, "https://example.org"),
    Body(TRUE, TRUE, "not a url") }

PairFailures == { "ENOTFOUND", "404" }

InitPair == Init /\ ~posthogKey

NextPair ==
  \/ \E body \in PairBodies : ReceiveRequest(body)
  \/ \E content \in FetchedContents : FetchSucceeds(content)
  \/ \E kind \in PairFailures : FetchFails(kind)
  \/ AnalyzeCategory(backend)
  \/ Switch

SpecPair == InitPair /\ [][NextPair]_vars

\* The category results of a request that runs alone on this content: each
\* category of the bank evaluated on it, the backend answering by its rule.
AloneResults(bank, content, hasKey, rule) ==
  [k \in 1..Len(bank) |->
     CategoryResult(bank[k],
       analyzeWithAI(content, bank[k].questions, hasKey,
                     IF hasKey THEN ShapeOutcome(rule, bank[k].questions)
                     ELSE Replies(NoReply)))]

AloneTable ==
  { LET cro == AloneResults(CRO_QUESTIONS, content, cfg[1], cfg[2])
        ux  == AloneResults(UX_QUESTIONS, content, cfg[1], cfg[2])
    IN  [content |-> content, hasKey |-> cfg[1], rule |-> cfg[2],
         cro |-> cro, ux |-> ux, result |-> BuildResult("", cro, ux)] :
      content \in FetchedContents,
      cfg \in ({TRUE} \X BackendRules) \cup { <<FALSE, "none">> } }

\* The entry of the table for this content under the keys of this process.
Alone(content) ==
  CHOOSE a \in AloneTable :
    a.content = content /\ a.hasKey = openaiKey /\ a.rule = backend

\* The response of a request that runs alone with this body and this outcome
\* of its fetch (Unfetched: the fetch failed).
AloneResponse(body, content) ==
  IF ~body.json THEN ErrorResponse(500, "Analysis failed. Please try again.")
  ELSE IF ~body.defined \/ body.text = "" THEN ErrorResponse(400, "URL is required")
  ELSE IF ~IsAbsoluteURL(body.text) THEN ErrorResponse(400, "Invalid URL format")
  ELSE IF content.status = 0 THEN ErrorResponse(500, "Analysis failed. Please try again.")
  ELSE ResultResponse([Alone(content).result EXCEPT !.url = body.text])

(***************************************************************************)
(* C19: concurrent analyses are independent.  In every interleaving of two *)
(* requests, the category results each request has collected so far are   *)
(* those of its own fetched content, and the response of each finished     *)
(* request is the one it gets when it runs alone with the same body, the   *)
(* same outcome of its fetch and the same backend answers.                 *)
(***************************************************************************)
C19_ConcurrentRequestsIndependent ==
  \A p \in { Current, parked } :
    /\ p.fetches <= 1
    /\ p.summary.status = 0 => (p.croResults = <<>> /\ p.uxResults = <<>>)
    /\ p.summary.status # 0 =>
         /\ p.croResults = SubSeq(Alone(p.summary).cro, 1, Len(p.croResults))
         /\ p.uxResults = SubSeq(Alone(p.summary).ux, 1, Len(p.uxResults))
    /\ p.pc = "done" => p.response = AloneResponse(p.url, p.summary)

C19_Witness ==
  /\ ~openaiKey
  /\ pc = "analyzing"
  /\ parked.pc = "analyzing"
  /\ url # parked.url
  /\ summary # parked.summary
  /\ Len(croResults) = 3
  /\ Len(parked.croResults) = 2
  /\ croResults[1] # parked.croResults[1]

(***************************************************************************)
(* C12: the error returned identifies its kind.  Of two finished requests  *)
(* that ended differently (success, missing URL, invalid URL, a fetch      *)
(* failure of one sub-kind or another, an analysis failure), the responses *)
(* differ.                                                                 *)
(***************************************************************************)
C12_ErrorKindsDistinguishable ==
  LET fetchMessages == { FetchErrorMessage(kind) : kind \in FetchFailures }
      Kind(p) ==
        IF ~p.url.json THEN << "AnalysisFailure", "" >>
        ELSE IF ~p.url.defined \/ p.url.text = "" THEN << "MissingURL", "" >>
        ELSE IF ~IsAbsoluteURL(p.url.text) THEN << "InvalidURL", "" >>
        ELSE IF p.caught \in fetchMessages THEN << "FetchError", p.caught >>
        ELSE IF p.caught # "" THEN << "AnalysisFailure", "" >>
        ELSE << "AnalysisResult", "" >>
  IN  (pc = "done" /\ parked.pc = "done" /\ Kind(Current) # Kind(parked)) =>
        response # parked.response

(***************************************************************************)
(* One request whose model calls succeed or fail, each on its own: a call  *)
(* throws, its reply is empty, or the reply is not JSON (with or without a *)
(* brace-delimited part).                                                  *)
(***************************************************************************)
FailureShapes == { "error", "empty", "garbage", "badobject" }

NextFailure ==
  \/ \E body \in Bodies : ReceiveRequest(body)
  \/ TelemetryStartedReturns(TRUE)
  \/ \E content \in FetchedContents : FetchSucceeds(content)
  \/ \E kind \in FetchFailures : FetchFails(kind)
  \/ \E shape \in (IF openaiKey THEN FailureShapes \cup {"yes"} ELSE {"none"}) :
       AnalyzeCategory(shape)
  \/ TelemetryCompletedReturns(TRUE)
  \/ TelemetryErrorReturns(TRUE)

SpecFailure == Init /\ [][NextFailure]_vars

(***************************************************************************)
(* C21: a model-call or parse failure in one category changes only that    *)
(* category's CategoryResult.  With a backend whose rule is to answer,     *)
(* every category result is either the one the rule gives or the one a     *)
(* failure gives, no more category results differ from the rule's than     *)
(* calls have failed, the handler's catch block is never entered after the *)
(* fetch, each pending category has had its own model call issued, and the *)
(* finished request answers 200 with all 15 calls made.                    *)
(***************************************************************************)
C21_FailureConfinedToItsCategory ==
  (openaiKey /\ summary.status = 200) =>
    LET ByShape(cat, shape) ==
          CategoryResult(cat, analyzeWithAI(summary, cat.questions, TRUE,
                                            ShapeOutcome(shape, cat.questions)))
        Confined(bank, results) ==
          \A k \in 1..Len(results) :
            results[k] \in { ByShape(bank[k], shape) : shape \in FailureShapes \cup {"yes"} }
        Changed(bank, results) ==
          { k \in 1..Len(results) : results[k] # ByShape(bank[k], backend) }
    IN  /\ caught = ""
        /\ Confined(CRO_QUESTIONS, croResults)
        /\ Confined(UX_QUESTIONS, uxResults)
        /\ Cardinality(Changed(CRO_QUESTIONS, croResults))
             + Cardinality(Changed(UX_QUESTIONS, uxResults)) <= deviations
        /\ pc = "analyzing" => modelCalls = Len(croResults) + Len(uxResults) + 1
        /\ pc \in { "telemetry_completed", "done" } =>
             modelCalls = Len(CRO_QUESTIONS) + Len(UX_QUESTIONS)
        /\ pc = "done" =>
             /\ response.status = 200
             /\ response.result.croAnalysis = croResults
             /\ response.result.uxAnalysis = uxResults

C21_Witness ==
  /\ pc = "done"
  /\ backend = "yes"
  /\ deviations = 1
  /\ modelCalls = 15
  /\ response.status = 200
  /\ response.result.croAnalysis[1].score = 100
  /\ response.result.croAnalysis[2].score = 50
  /\ response.result.croAnalysis[2].questions[1].evidence
       = "Unable to analyze due to technical issues"
  /\ \A k \in 3..7 : response.result.croAnalysis[k].score = 100
  /\ \A k \in 1..8 : response.result.uxAnalysis[k].score = 100

(***************************************************************************)
(* C22: a recommendation's category is cro exactly when the answered       *)
(* question it was derived from is an entry of croAnalysis, and ux exactly *)
(* when it is an entry of uxAnalysis, also when the two analyses hold      *)
(* entries with the same field values.  The entries of croAnalysis come    *)
(* first in source order, so among the high-priority recommendations the   *)
(* first ones, as many as croAnalysis has qualifying entries, are cro and  *)
(* the rest are ux, and likewise among the medium-priority ones.           *)
(***************************************************************************)
C22_CategoryIsOriginList ==
  (recCall.active /\ recCall.returned) =>
    LET croQuestions == flatMapQuestions(recCall.croAnalysis)
        uxQuestions == flatMapQuestions(recCall.uxAnalysis)
        Count(questions, p) ==
          Cardinality({ i \in 1..Len(questions) :
                          questions[i].priority = p /\ questions[i].answer # "yes" })
        Least(a, b) == IF a < b THEN a ELSE b
        croHigh == Least(Count(croQuestions, "high"), HighLimit)
        nHigh == Least(Count(croQuestions, "high") + Count(uxQuestions, "high"), HighLimit)
        croMedium == Least(Count(croQuestions, "medium"), MediumLimit)
        nMedium == Least(Count(croQuestions, "medium") + Count(uxQuestions, "medium"),
                         MediumLimit)
        R == recCall.recommendations
    IN  /\ Len(R) = nHigh + nMedium
        /\ \A i \in 1..nHigh :
             R[i].category = (IF i <= croHigh THEN "cro" ELSE "ux")
        /\ \A i \in 1..nMedium :
             R[nHigh + i].category = (IF i <= croMedium THEN "cro" ELSE "ux")

C22_Witness ==
  /\ recCall.active
  /\ recCall.returned
  /\ recCall.croAnalysis = recCall.uxAnalysis
  /\ \E i, j \in 1..Len(recCall.recommendations) :
       /\ recCall.recommendations[i].title = recCall.recommendations[j].title
       /\ recCall.recommendations[i].category = "cro"
       /\ recCall.recommendations[j].category = "ux"

(***************************************************************************)
(* The fetch and the heuristic evaluator together, for the questions of    *)
(* the accessibility category: a page is fetched, fetchWebsiteContent      *)
(* extracts its ContentSummary (route.ts:140-199) and the category is      *)
(* evaluated without a key.  A page is given by what the extraction reads: *)
(* its title, its description, the alt attribute of each img tag in order  *)
(* ("" when it is missing or empty), and the number of its forms and       *)
(* buttons.                                                                *)
(***************************************************************************)
\* A page has at most this many img tags.
MaxImages == 3

Pages ==
  { [title |-> t, description |-> IF t = "" THEN "" ELSE "A test site", imgs |-> i,
     forms |-> f, buttons |-> f] :
      t \in { "", "Example" }, f \in { 0, 2 },
      i \in UNION { [1..n -> { "", "logo" }] : n \in 0..MaxImages } }

\* route.ts:170-199: only an img tag with a non-empty alt matches the
\* pattern, and the images are the alt texts of the matches.
fetchWebsiteContent(page) ==
  LET NonEmpty(alt) == alt # ""
  IN  [title |-> page.title, description |-> page.description, headings |-> <<>>,
       images |-> SelectSeq(page.imgs, NonEmpty), forms |-> page.forms,
       buttons |-> page.buttons, status |-> 200]

PageCalls ==
  { [active |-> TRUE, page |-> p, content |-> Unfetched,
     questions |-> UX_QUESTIONS[4].questions, hasKey |-> FALSE, shape |-> "none",
     outcome |-> Replies(NoReply), returned |-> FALSE, value |-> NullJson] :
      p \in Pages }

InitPage ==
  /\ HandlerIdle
  /\ evalCall \in PageCalls
  /\ gradeCall = Idle
  /\ recCall = Idle

\* route.ts:582: the fetch returns the page's ContentSummary.
FetchPage ==
  /\ evalCall.active
  /\ evalCall.content.status = 0
  /\ evalCall' = [evalCall EXCEPT !.content = fetchWebsiteContent(evalCall.page)]
  /\ UNCHANGED <<handlerVars, gradeCall, recCall>>

NextPage ==
  \/ FetchPage
  \/ evalCall.content.status = 200 /\ Evaluate

SpecPage == InitPage /\ [][NextPage]_vars

(***************************************************************************)
(* C23: in heuristic mode the alt-text question of the bank ('Are there    *)
(* proper alt texts for images?') is answered from the alt-text coverage   *)
(* of the page's images: yes when the page has images and each has alt     *)
(* text, needs_work with priority medium when only some of them have, and  *)
(* needs_work when the page has no image.                                  *)
(***************************************************************************)
C23_AltTextCoverage ==
  (evalCall.active /\ evalCall.returned) =>
    LET imgs == evalCall.page.imgs
        withAlt == Cardinality({ i \in 1..Len(imgs) : imgs[i] # "" })
        a == evalCall.value.items[1]
    IN  /\ a.question = "Are there proper alt texts for images?"
        /\ Len(imgs) = 0 => a.answer = "needs_work"
        /\ (Len(imgs) > 0 /\ withAlt = Len(imgs)) => a.answer = "yes"
        /\ (0 < withAlt /\ withAlt < Len(imgs)) =>
             (a.answer = "needs_work" /\ a.priority = "medium")

(***************************************************************************)
(* The model-backed evaluator on reply texts.  A reply text is a sequence  *)
(* of segments: "prose" is text without braces, "object" and "other" are   *)
(* the texts of two JSON objects (an answer list each), "braces" is text   *)
(* in braces that is not JSON, such as {placeholder}.                      *)
(*   JSON.parse(response) (route.ts:280) succeeds when the text is one     *)
(* JSON object and nothing else.  The pattern /\{[\s\S]*\}/ (route.ts:284) *)
(* is greedy: it matches from the first opening brace of the text to its   *)
(* last closing brace, and JSON.parse(jsonMatch[0]) (route.ts:286)         *)
(* succeeds when that span is one JSON object.                             *)
(***************************************************************************)
\* A reply text has at most this many segments.
MaxSegments == 3

Segments == { "prose", "object", "other", "braces" }

ReplyTexts == UNION { [1..n -> Segments] : n \in 0..MaxSegments }

IsObjectSegment(segment) == segment \in { "object", "other" }

SegmentValue(segment, questions) ==
  IF segment = "object" THEN QuestionsObject(AllAnswers(questions, "yes", "low"))
  ELSE QuestionsObject(AllAnswers(questions, "no", "high"))

TextReply(text, questions) ==
  LET braced == { i \in 1..Len(text) : text[i] # "prose" }
      first == CHOOSE i \in braced : \A j \in braced : i <= j
      last == CHOOSE i \in braced : \A j \in braced : j <= i
      direct == IF Len(text) = 1 /\ IsObjectSegment(text[1])
                THEN Parsed(SegmentValue(text[1], questions)) ELSE ParseFail
      object == IF braced # {} /\ first = last /\ IsObjectSegment(text[first])
                THEN Parsed(SegmentValue(text[first], questions)) ELSE ParseFail
  IN  [empty |-> Len(text) = 0, direct |-> direct, hasObject |-> braced # {},
       object |-> object,
       objectError |-> IF braced # {} /\ ~object.ok
                       THEN "Unexpected token p in JSON at position 1" ELSE ""]

TextCalls ==
  { [active |-> TRUE, text |-> t, content |-> RichContent, questions |-> qs,
     hasKey |-> TRUE, shape |-> "text", outcome |-> Replies(TextReply(t, qs)),
     returned |-> FALSE, value |-> NullJson] :
      t \in ReplyTexts, qs \in BankQuestionLists }

InitText ==
  /\ HandlerIdle
  /\ evalCall \in TextCalls
  /\ gradeCall = Idle
  /\ recCall = Idle

SpecText == InitText /\ [][NextEval]_vars

(***************************************************************************)
(* C24: when the reply is not directly parseable as JSON but contains a    *)
(* JSON object, the evaluator returns the parsed value of the first JSON   *)
(* object of the reply, whatever else the reply holds, also when text with *)
(* braces follows that object.                                             *)
(***************************************************************************)
C24_RecoversFirstObject ==
  (evalCall.active /\ evalCall.returned) =>
    LET text == evalCall.text
        objects == { i \in 1..Len(text) : IsObjectSegment(text[i]) }
        first == CHOOSE i \in objects : \A j \in objects : i <= j
    IN  (~evalCall.outcome.reply.direct.ok /\ objects # {}) =>
          evalCall.value = SegmentValue(text[first], evalCall.questions)

(***************************************************************************)
(* C25: telemetry is fire-and-forget.  The handler does not wait for a     *)
(* telemetry post, so it is never suspended at one: whenever the start     *)
(* event has been posted the content fetch has been started, and whenever  *)
(* a terminal event has been posted the response has been returned,        *)
(* whether the post has completed or not.                                  *)
(***************************************************************************)
C25_TelemetryNotAwaited ==
  /\ pc \notin { "telemetry_started", "telemetry_completed", "telemetry_error" }
  /\ (\E i \in 1..Len(events) : events[i] = "api_analysis_started") => fetches > 0
  /\ (\E i \in 1..Len(events) :
        events[i] \in { "api_analysis_completed", "api_analysis_error" }) => pc = "done"

(***************************************************************************)
(* A whole analysis without a key (route.ts:593-653): every category of    *)
(* both banks evaluated by performFallbackAnalysis on one ContentSummary,  *)
(* then scored, graded and ranked.  The ContentSummaries cover every       *)
(* combination of what the rules read: title and description present or    *)
(* not, buttons and forms present or not, no image, images with alt text,  *)
(* an image entry without, and headings that do or do not hold a word of   *)
(* the social-proof, urgency and pricing rules, or no heading at all.      *)
(***************************************************************************)
HeadingChoices == << "Customer Reviews", "Limited Time Offer", "Fees", "About us" >>

HeuristicContents ==
  { [title |-> t, description |-> d,
     headings |-> LET Chosen(i) == i \in hs
                      picked == SelectSeq(<<1, 2, 3, 4>>, Chosen)
                  IN  [k \in 1..Len(picked) |-> HeadingChoices[picked[k]]],
     images |-> im, forms |-> f, buttons |-> b, status |-> 200] :
      t \in { "", "Example" }, d \in { "", "A test site" },
      hs \in SUBSET (1..4),
      im \in { <<>>, <<"logo", "banner">>, <<"", "logo">> },
      f \in { 0, 2 }, b \in { 0, 5 } }

HeuristicCalls ==
  { [active |-> TRUE, content |-> c, returned |-> FALSE, result |-> NoResult] :
      c \in HeuristicContents }

InitHeuristic ==
  /\ HandlerIdle
  /\ evalCall \in HeuristicCalls
  /\ gradeCall = Idle
  /\ recCall = Idle

\* route.ts:593-653 with performFallbackAnalysis as the evaluator.
AnalyzeWithoutKey ==
  /\ evalCall.active
  /\ ~evalCall.returned
  /\ evalCall' =
       [evalCall EXCEPT
          !.returned = TRUE,
          !.result = BuildResult("https://example.com",
                       AloneResults(CRO_QUESTIONS, evalCall.content, FALSE, "none"),
                       AloneResults(UX_QUESTIONS, evalCall.content, FALSE, "none"))]
  /\ UNCHANGED <<handlerVars, gradeCall, recCall>>

NextHeuristic == AnalyzeWithoutKey

SpecHeuristic == InitHeuristic /\ [][NextHeuristic]_vars

(***************************************************************************)
(* C26: without a model backend, whatever the ContentSummary, the result   *)
(* has croScore <= 12 and uxScore <= 12, and its overallGrade is neither A *)
(* nor B.                                                                  *)
(***************************************************************************)
C26_HeuristicScoresCapped ==
  (evalCall.active /\ evalCall.returned) =>
    /\ evalCall.result.croScore <= 12
    /\ evalCall.result.uxScore <= 12
    /\ evalCall.result.overallGrade \notin { "A", "B" }

C26_Witness ==
  /\ evalCall.active
  /\ evalCall.returned
  /\ evalCall.result.croScore = 12
  /\ evalCall.result.uxScore = 12
  /\ evalCall.result.overallGrade = "C"
  /\ evalCall.content.forms > 0

(***************************************************************************)
(* C29: without a model backend, whatever the ContentSummary, the          *)
(* recommendation list holds exactly three entries of priority medium and  *)
(* at most one of priority high, and it holds one of priority high exactly *)
(* when the page has no form.                                              *)
(***************************************************************************)
C29_HeuristicRecommendations ==
  (evalCall.active /\ evalCall.returned) =>
    LET R == evalCall.result.recommendations
        high == { i \in 1..Len(R) : R[i].priority = "high" }
        medium == { i \in 1..Len(R) : R[i].priority = "medium" }
    IN  /\ Cardinality(medium) = 3
        /\ Cardinality(high) <= 1
        /\ (Cardinality(high) = 1) <=> (evalCall.content.forms = 0)

C29_Witness ==
  /\ evalCall.active
  /\ evalCall.returned
  /\ evalCall.content.forms = 0
  /\ evalCall.content.buttons = 0
  /\ Len(evalCall.result.recommendations) = 4
  /\ evalCall.result.recommendations[1].priority = "high"
  /\ evalCall.result.recommendations[1].title = "Fix: Is there a logical information hierarchy?"
  /\ \A i \in 2..4 : evalCall.result.recommendations[i].priority = "medium"

C28_TelemetryEvents ==
  LET valid == url.json /\ url.defined /\ url.text # "" /\ IsAbsoluteURL(url.text)
      Count(name) == Cardinality({ i \in 1..Len(events) : events[i] = name })
  IN  /\ Count("api_analysis_started") <= 1
      /\ Count("api_analysis_completed") + Count("api_analysis_error") <= 1
      /\ response.status = 400 => events = <<>>
      /\ (posthogKey /\ valid) =>
           /\ pc = "telemetry_started" =>
                (events = << "api_analysis_started" >> /\ fetches = 0)
           /\ fetches > 0 => (Len(events) >= 1 /\ events[1] = "api_analysis_started")
           /\ pc \in { "fetching", "analyzing" } => events = << "api_analysis_started" >>
           /\ response.status = 200 =>
                events = << "api_analysis_started", "api_analysis_completed" >>
           /\ response.status = 500 =>
                events = << "api_analysis_started", "api_analysis_error" >>
           /\ pc = "done" => response.status \in { 200, 500 }
           /\ Count("api_analysis_completed") = 1 =>
                (pc = "telemetry_completed" \/ response.status = 200)
           /\ Count("api_analysis_error") = 1 =>
                (pc = "telemetry_error" \/ response.status = 500)

C28_Witness ==
  /\ pc = "done"
  /\ posthogKey
  /\ fetches = 1
  /\ summary.status = 200
  /\ caught # ""
  /\ response.status = 500
  /\ events = << "api_analysis_started", "api_analysis_error" >>

(***************************************************************************)
(* Termination of POST (route.ts:534-707).  The handler suspends only at   *)
(* its awaits: request.json() (:538), the start event (:566), axios.get    *)
(* inside fetchWebsiteContent (:133, bounded by a 15 s timeout), one       *)
(* analyzeWithAI call per category (:598, :616), the completed event       *)
(* (:660) and the error event (:687).  Rank numbers these suspension       *)
(* points in program order; the category loops contribute one per          *)
(* category already analysed.                                              *)
(***************************************************************************)
Rank ==
  CASE pc = "idle" -> 0
    [] pc = "telemetry_started" -> 1
    [] pc = "fetching" -> 2
    [] pc = "analyzing" -> 3 + Len(croResults) + Len(uxResults)
    [] pc \in { "telemetry_completed", "telemetry_error" } ->
         3 + Len(CRO_QUESTIONS) + Len(UX_QUESTIONS)
    [] pc = "done" -> 4 + Len(CRO_QUESTIONS) + Len(UX_QUESTIONS)

====
